---- MODULE Spec2Model ----
(***************************************************************************)
(* A model of the detection core of TOS-Searcher: the pattern library      *)
(* (analyzer/patterns.py), the linguistic scorer (analyzer/scorer.py) and  *)
(* the detector (analyzer/detector.py).                                    *)
(*                                                                         *)
(* Scores are Python floats.  A float is modelled exactly: see the section *)
(* "IEEE-754 doubles" below.  Decimal literals of the source (0.8, -0.4,   *)
(* 0.9, ...) are written in thousandths (800, -400, 900, ...).             *)
(***************************************************************************)
EXTENDS Integers, Sequences, FiniteSets, TLC

(***************************************************************************)
(* Bounds of the model.                                                    *)
(***************************************************************************)
\* The longest document, in phrases of the vocabulary.
MaxPhrases == 2

(***************************************************************************)
(* IEEE-754 doubles.                                                       *)
(*                                                                         *)
(* Every float the detector computes is a multiple of u = 2^-56 below 8.   *)
(* With 2^56 = 1000*Q + 936 (Q = 72057594037927, Q mod 128 = 39), the      *)
(* float of value (m*Q + k)*u is the record [m |-> m, k |-> k]: m is the   *)
(* value in thousandths and k, a small integer, its offset in units of u.  *)
(* The decimal m/1000 itself is (m*Q + 0.936*m)*u, which is a double only  *)
(* when 0.936*m is an integer on the double grid.  Addition is exact       *)
(* addition of the records followed by rounding to 53 significant bits,    *)
(* ties to even, as the hardware does it.                                  *)
(***************************************************************************)
Flt(m, k) == [m |-> m, k |-> k]

FZero == Flt(0, 0)

\* a < b on floats (k is far smaller than Q, so the order is lexicographic).
FLess(a, b) == a.m < b.m \/ (a.m = b.m /\ a.k < b.k)

FNeg(a) == Flt(-a.m, -a.k)

FAbs(a) == IF FLess(a, FZero) THEN FNeg(a) ELSE a

\* The power of two t/1000 (t = 125, 250, ...), which is exactly (t*Q + 936*t/1000)*u.
FPow2(t) == Flt(t, (936 * t) \div 1000)

\* The spacing of the doubles around x >= 0, in units of u: 2^(e+4) for x in
\* [2^e, 2^(e+1)).
FGridPos(x) ==
    IF FLess(x, FPow2(125)) THEN 1
    ELSE IF FLess(x, FPow2(250)) THEN 2
    ELSE IF FLess(x, FPow2(500)) THEN 4
    ELSE IF FLess(x, FPow2(1000)) THEN 8
    ELSE IF FLess(x, FPow2(2000)) THEN 16
    ELSE IF FLess(x, FPow2(4000)) THEN 32
    ELSE 64

\* (a.m*Q + a.k) mod g for a >= 0 and g a power of two up to 128.
FMod(a, g) == (((a.m % g) * (39 % g)) + a.k) % g

\* a >= 0, of remainder r > 0 on the grid g, rounded to the nearest point of
\* the grid, ties to the even one.
FRoundTies(a, g, r) ==
    IF 2 * r < g THEN Flt(a.m, a.k - r)
    ELSE IF 2 * r > g THEN Flt(a.m, a.k + g - r)
    ELSE IF FMod(Flt(a.m, a.k - r), 2 * g) = 0 THEN Flt(a.m, a.k - r)
    ELSE Flt(a.m, a.k + g - r)

FRoundRem(a, g, r) == IF r = 0 THEN a ELSE FRoundTies(a, g, r)

FRoundOnGrid(a, g) == FRoundRem(a, g, FMod(a, g))

\* Round a non-negative exact sum to the nearest double, ties to even.
FRoundPos(a) == FRoundOnGrid(a, FGridPos(a))

\* x with the sign of a.
FSigned(a, x) == IF FLess(a, FZero) THEN FNeg(x) ELSE x

FRound(a) == FSigned(a, FRoundPos(FAbs(a)))

\* The float sum a + b.
FAdd(a, b) == FRound(Flt(a.m + b.m, a.k + b.k))

\* The double nearest to t/1000 on the grid g, c being (t*Q) mod g negated.
FLitNear(t, g, c) ==
    Flt(t, g * ((2 * (936 * t + 1000 * c) + 1000 * g) \div (2000 * g)) - c)

FLitOnGrid(t, g) == FLitNear(t, g, ((t % g) * (39 % g)) % g)

\* The double a decimal literal of t thousandths (t >= 0) denotes: the nearest to t/1000.
FLit(t) == FLitOnGrid(t, FGridPos(Flt(t, (936 * t) \div 1000)))

\* min(a, b) and max(a, b) of Python: the first argument unless the second is smaller/larger.
FMin(a, b) == IF FLess(b, a) THEN b ELSE a

FMax(a, b) == IF FLess(a, b) THEN b ELSE a

\* round(a, 3), as the thousandths of the result: a is within a few u of a.m/1000.
FRound3(a) == a.m

\* The float literals of detector.py and scorer.py.
BASE_CAP == FLit(900)

FLOOR == FLit(100)

ONE == FLit(1000)

LEGAL_BONUS == FLit(100)

ACTION_BONUS == FLit(100)

IF_YOU_BONUS == FLit(100)

MONEY_BONUS == FLit(150)

BONUS_CAP == FLit(400)

(***************************************************************************)
(* analyzer/patterns.py: the rule tables.                                  *)
(***************************************************************************)
\* (name, category, weight), in declaration order; the regular expression of
\* a rule is modelled by finditer below.  A weight is the double its literal
\* denotes.
PRIZE_PATTERNS ==
    << [name |-> "read_this_far",         category |-> "strong", weight |-> FLit(800)],
       [name |-> "first_person_to",       category |-> "strong", weight |-> FLit(700)],
       [name |-> "hidden_reward",         category |-> "strong", weight |-> FLit(700)],
       [name |-> "congratulations_found", category |-> "strong", weight |-> FLit(800)],
       [name |-> "claim_instruction",     category |-> "strong", weight |-> FLit(700)],
       [name |-> "email_to_win",          category |-> "strong", weight |-> FLit(800)],
       [name |-> "dollar_prize",          category |-> "strong", weight |-> FLit(700)],
       [name |-> "few_who_read",          category |-> "strong", weight |-> FLit(800)],
       [name |-> "contest_words",         category |-> "medium", weight |-> FLit(300)],
       [name |-> "winner_language",       category |-> "medium", weight |-> FLit(300)],
       [name |-> "reward_mention",        category |-> "medium", weight |-> FLit(200)],
       [name |-> "easter_egg_mention",    category |-> "weak",   weight |-> FLit(100)],
       [name |-> "urgency_scarcity",      category |-> "weak",   weight |-> FLit(100)] >>

\* (name, penalty), in declaration order.
NEGATIVE_PATTERNS ==
    << [name |-> "official_rules",    penalty |-> FNeg(FLit(400))],
       [name |-> "sweepstakes_terms", penalty |-> FNeg(FLit(300))],
       [name |-> "legal_boilerplate", penalty |-> FNeg(FLit(300))] >>

(***************************************************************************)
(* Documents.  A text is a sequence of phrases of the vocabulary joined by *)
(* one newline.  The phrases are                                           *)
(*   ReadFar   "If you've read this far, you are one of the very few       *)
(*              people who actually reads our terms of service."           *)
(*   ClaimAll  "Congratulations, you found the hidden prize: be the first  *)
(*              person to email us at prize@acme.com to claim your $500    *)
(*              gift card."                                                *)
(*   HiddenMsg "There is a hidden message herein."                         *)
(*   Enter     "Enter our sweepstakes for a chance to win a prize."        *)
(*   ActNow    "Act now to find the easter egg."                           *)
(*   Limited   "This is a limited time offer."                             *)
(*   Official  "OFFICIAL RULES: No purchase necessary to enter or win."    *)
(*   Eligibility "Eligibility requirements: open to residents only."       *)
(*   Sweeps    "NO PURCHASE NECESSARY: the sweepstakes rules are open to   *)
(*              legal residents."                                          *)
(*   Legal     "You hereby accept binding arbitration."                    *)
(* No rule of either table has an occurrence that spans the newline        *)
(* between two of these phrases, so the occurrences in a text are the      *)
(* occurrences in its phrases, shifted.                                    *)
(***************************************************************************)
Vocabulary ==
    { "ReadFar", "ClaimAll", "HiddenMsg", "Enter", "ActNow", "Limited",
      "Official", "Eligibility", "Sweeps", "Legal" }

\* len(phrase), in characters.
PhraseLen(p) ==
    CASE p = "ReadFar"     -> 100
      [] p = "ClaimAll"    -> 124
      [] p = "HiddenMsg"   -> 33
      [] p = "Enter"       -> 50
      [] p = "ActNow"      -> 31
      [] p = "Limited"     -> 29
      [] p = "Official"    -> 54
      [] p = "Eligibility" -> 49
      [] p = "Sweeps"      -> 73
      [] p = "Legal"       -> 38

RECURSIVE SeqsUpTo(_, _)
\* The sequences over S of length at most n.
SeqsUpTo(S, n) ==
    IF n = 0 THEN { << >> }
    ELSE LET shorter == SeqsUpTo(S, n - 1)
         IN  shorter \cup { Append(s, x) : s \in shorter, x \in S }

Texts == SeqsUpTo(Vocabulary, MaxPhrases)

RECURSIVE PhraseStart(_, _)
\* The offset in the text of the first character of its i-th phrase.
PhraseStart(text, i) ==
    IF i = 1 THEN 0 ELSE PhraseStart(text, i - 1) + PhraseLen(text[i - 1]) + 1

\* len(text).
TextLen(text) ==
    IF text = << >> THEN 0
    ELSE PhraseStart(text, Len(text)) + PhraseLen(text[Len(text)])

RECURSIVE Flatten(_)
\* The concatenation of a sequence of sequences.
Flatten(ss) == IF ss = << >> THEN << >> ELSE Head(ss) \o Flatten(Tail(ss))

Occ(start, end, group) == [start |-> start, end |-> end, group |-> group]

\* pattern.finditer(phrase) for the positive rule `name`: its non-overlapping
\* occurrences in phrase p, left to right, as (m.start(), m.end(), m.group()).
finditer(name, p) ==
    CASE p = "ReadFar" /\ name = "read_this_far" ->
        << Occ(0, 23, "If you've read this far") >>
      [] p = "ReadFar" /\ name = "few_who_read" ->
        << Occ(33, 88, "one of the very few people who actually reads our terms") >>
      [] p = "ClaimAll" /\ name = "first_person_to" ->
        << Occ(52, 73, "first person to email") >>
      [] p = "ClaimAll" /\ name = "hidden_reward" ->
        << Occ(31, 43, "hidden prize") >>
      [] p = "ClaimAll" /\ name = "congratulations_found" ->
        << Occ(0, 26, "Congratulations, you found") >>
      [] p = "ClaimAll" /\ name = "claim_instruction" ->
        << Occ(68, 123, "email us at prize@acme.com to claim your $500 gift card") >>
      [] p = "ClaimAll" /\ name = "email_to_win" ->
        << Occ(68, 118, "email us at prize@acme.com to claim your $500 gift") >>
      [] p = "ClaimAll" /\ name = "dollar_prize" ->
        << Occ(109, 123, "$500 gift card") >>
      [] p = "ClaimAll" /\ name = "reward_mention" ->
        << Occ(38, 43, "prize"), Occ(80, 85, "prize"), Occ(114, 123, "gift card") >>
      [] p = "HiddenMsg" /\ name = "hidden_reward" ->
        << Occ(11, 25, "hidden message") >>
      [] p = "Enter" /\ name = "contest_words" ->
        << Occ(10, 21, "sweepstakes") >>
      [] p = "Enter" /\ name = "winner_language" ->
        << Occ(28, 41, "chance to win") >>
      [] p = "Enter" /\ name = "reward_mention" ->
        << Occ(44, 49, "prize") >>
      [] p = "ActNow" /\ name = "easter_egg_mention" ->
        << Occ(20, 30, "easter egg") >>
      [] p = "ActNow" /\ name = "urgency_scarcity" ->
        << Occ(0, 7, "Act now") >>
      [] p = "Limited" /\ name = "urgency_scarcity" ->
        << Occ(10, 22, "limited time") >>
      [] p = "Sweeps" /\ name = "contest_words" ->
        << Occ(27, 38, "sweepstakes") >>
      [] OTHER -> << >>

\* The number of occurrences of the negative rule `name` in phrase p.
NegOccurrences(name, p) ==
    CASE p = "Official"    /\ name = "official_rules"    -> 2
      [] p = "Eligibility" /\ name = "sweepstakes_terms" -> 1
      [] p = "Eligibility" /\ name = "legal_boilerplate" -> 1
      [] p = "Sweeps"      /\ name = "official_rules"    -> 1
      [] p = "Sweeps"      /\ name = "sweepstakes_terms" -> 1
      [] p = "Sweeps"      /\ name = "legal_boilerplate" -> 1
      [] OTHER -> 0

\* pattern.search(text) for the negative rule `name`: is there an occurrence?
search(name, text) == \E i \in 1..Len(text) : NegOccurrences(name, text[i]) > 0

(***************************************************************************)
(* analyzer/patterns.py: matching.                                         *)
(***************************************************************************)
PatternMatch(rule, off, o) ==
    [pattern_name |-> rule.name,
     category     |-> rule.category,
     matched_text |-> o.group,
     start        |-> off + o.start,
     end          |-> off + o.end,
     weight       |-> rule.weight]

\* The matches of one rule in the text, in the order finditer yields them.
RuleMatches(rule, text) ==
    Flatten([i \in 1..Len(text) |->
        LET occ == finditer(rule.name, text[i])
        IN  [j \in 1..Len(occ) |-> PatternMatch(rule, PhraseStart(text, i), occ[j])]])

\* find_all_matches that drops a match whose span overlaps the span of a
\* match of a different rule found before it.
find_all_matches_no_overlap(text) ==
    LET all == Flatten([r \in 1..Len(PRIZE_PATTERNS) |-> RuleMatches(PRIZE_PATTERNS[r], text)])
    IN  Flatten([k \in 1..Len(all) |->
            IF \E j \in 1..(k - 1) :
                  /\ all[j].pattern_name # all[k].pattern_name
                  /\ all[j].start < all[k].end
                  /\ all[k].start < all[j].end
            THEN << >> ELSE << all[k] >>])

\* find_all_matches(text): rule by rule in declaration order, and within a
\* rule by offset.
find_all_matches(text) ==
    Flatten([r \in 1..Len(PRIZE_PATTERNS) |-> RuleMatches(PRIZE_PATTERNS[r], text)])

\* find_negative_matches with one pair for every occurrence of a rule, as
\* finditer would give.
find_negative_matches_per_occurrence(text) ==
    Flatten([r \in 1..Len(NEGATIVE_PATTERNS) |->
        Flatten([i \in 1..Len(text) |->
            [k \in 1..NegOccurrences(NEGATIVE_PATTERNS[r].name, text[i]) |->
                <<NEGATIVE_PATTERNS[r].name, NEGATIVE_PATTERNS[r].penalty>>]])])

\* find_negative_matches(text): (name, penalty) of every negative rule that
\* occurs, once each, in declaration order.
find_negative_matches(text) ==
    Flatten([r \in 1..Len(NEGATIVE_PATTERNS) |->
        IF search(NEGATIVE_PATTERNS[r].name, text)
        THEN << <<NEGATIVE_PATTERNS[r].name, NEGATIVE_PATTERNS[r].penalty>> >>
        ELSE << >>])

(***************************************************************************)
(* analyzer/scorer.py.  The linguistic processor is an external            *)
(* capability; what it returns for a text is given here phrase by phrase.  *)
(***************************************************************************)
\* The number of tokens of the phrase that are in LEGAL_INDICATORS
\* ("hereby" and "arbitration" in Legal,
\* "herein" in HiddenMsg).
LegalTokens(p) ==
    CASE p = "Legal"     -> 2
      [] p = "HiddenMsg" -> 1
      [] OTHER           -> 0

\* any(w in sent_lower for w in ACTION_WORDS), for the sentence a phrase is
\* ("email" in ClaimAll).
HasActionWord(p) == p = "ClaimAll"

\* "if you" in sent_lower ("If you've" in ReadFar).
HasIfYou(p) == p = "ReadFar"

\* The phrases with an amount of money, and the offset of the amount ("$500").
HasAmount(p) == p = "ClaimAll"

AmountAt(p) == CASE p = "ClaimAll" -> 109

\* The phrases of the text that lie in text[:100_000].
InDoc(text) == { i \in 1..Len(text) : PhraseStart(text, i) + PhraseLen(text[i]) <= 100000 }

\* The entity labellings the processor may produce for a text: the set of
\* the positions of the phrases whose amount it labels MONEY.
Labellings(text) == SUBSET { i \in 1..Len(text) : HasAmount(text[i]) }

\* doc = self._nlp(text[:100_000]): the count of legal tokens, the sentences
\* (one per phrase) and the entities (one per amount, labelled MONEY when the
\* processor recognises it, CARDINAL otherwise), in document order.
Doc(text, ner) ==
    [legal_count |->
        LET RECURSIVE Count(_)
            Count(i) == IF i = 0 THEN 0
                        ELSE Count(i - 1) + (IF i \in InDoc(text) THEN LegalTokens(text[i]) ELSE 0)
        IN  Count(Len(text)),
     sents |->
        Flatten([i \in 1..Len(text) |->
            IF i \in InDoc(text)
            THEN << [start_char |-> PhraseStart(text, i),
                     end_char   |-> PhraseStart(text, i) + PhraseLen(text[i]),
                     action     |-> HasActionWord(text[i]),
                     if_you     |-> HasIfYou(text[i])] >>
            ELSE << >>]),
     ents |->
        Flatten([i \in 1..Len(text) |->
            IF i \in InDoc(text) /\ HasAmount(text[i])
            THEN << [label_     |-> IF i \in ner THEN "MONEY" ELSE "CARDINAL",
                     start_char |-> PhraseStart(text, i) + AmountAt(text[i])] >>
            ELSE << >>])]

\* acc += x for every float x of xs, left to right.
FSumFrom(acc, xs) ==
    LET after[a \in [m : Int, k : Int], i \in 0..Len(xs)] ==
            IF i = Len(xs) THEN a ELSE after[FAdd(a, xs[i + 1]), i + 1]
    IN  after[acc, 0]

Abs(x) == IF x < 0 THEN -x ELSE x

\* What step 2 of score_context adds for one match: the bonuses of the first
\* sentence with sent.start_char <= match.start <= sent.end_char.
SentenceBonus(doc, match) ==
    LET hits == { i \in 1..Len(doc.sents) :
                    /\ doc.sents[i].start_char <= match.start
                    /\ match.start <= doc.sents[i].end_char }
    IN  IF hits = {} THEN << >>
        ELSE LET sent == doc.sents[CHOOSE i \in hits : \A j \in hits : i <= j]
             IN  (IF sent.action THEN << ACTION_BONUS >> ELSE << >>)
                 \o (IF sent.if_you THEN << IF_YOU_BONUS >> ELSE << >>)

\* EntityBonus that adds 0.15 for every match that starts less than 300
\* characters from a MONEY entity.
EntityBonus_per_match(ent, matches) ==
    IF ent.label_ = "MONEY"
    THEN Flatten([i \in 1..Len(matches) |->
            IF Abs(ent.start_char - matches[i].start) < 300
            THEN << MONEY_BONUS >> ELSE << >>])
    ELSE << >>

\* What step 3 of score_context adds for one entity: 0.15 once if it is a
\* MONEY entity with a match starting less than 300 characters away.
EntityBonus(ent, matches) ==
    IF /\ ent.label_ = "MONEY"
       /\ \E i \in 1..Len(matches) : Abs(ent.start_char - matches[i].start) < 300
    THEN << MONEY_BONUS >> ELSE << >>

\* The values score_context adds to score, in the order it adds them.
Contributions(doc, matches) ==
    (IF doc.legal_count >= 3 THEN << LEGAL_BONUS >> ELSE << >>)
    \o Flatten([i \in 1..Len(matches) |-> SentenceBonus(doc, matches[i])])
    \o Flatten([i \in 1..Len(doc.ents) |-> EntityBonus(doc.ents[i], matches)])

\* score_context without the final min(score, 0.4).
score_context_uncapped(nlp, text, ner, matches) ==
    IF ~nlp \/ matches = << >> THEN FZero
    ELSE FSumFrom(FZero, Contributions(Doc(text, ner), matches))

\* score_context whose early return tests only "not matches".
score_context_unguarded(nlp, text, ner, matches) ==
    IF matches = << >> THEN FZero
    ELSE FMin(FSumFrom(FZero, Contributions(Doc(text, ner), matches)), BONUS_CAP)

\* NLPScorer.score_context(text, matches); nlp is self._nlp being loaded.
score_context(nlp, text, ner, matches) ==
    IF ~nlp \/ matches = << >> THEN FZero
    ELSE FMin(FSumFrom(FZero, Contributions(Doc(text, ner), matches)), BONUS_CAP)

(***************************************************************************)
(* analyzer/detector.py.                                                   *)
(***************************************************************************)
\* The largest weight among the matches of the rule `name`.
MaxWeight(matches, name) ==
    LET ws == { matches[j].weight : j \in { j \in 1..Len(matches) :
                                              matches[j].pattern_name = name } }
    IN  CHOOSE w \in ws : \A v \in ws : ~FLess(w, v)

\* The dict unique_weights after the loop over matches, as the sequence of
\* its (key, value) pairs in insertion order: one entry per rule that fired,
\* inserted at the rule's first match, holding the largest weight among the
\* rule's matches.
unique_weights(matches) ==
    Flatten([i \in 1..Len(matches) |->
        IF \A j \in 1..(i - 1) : matches[j].pattern_name # matches[i].pattern_name
        THEN << [name   |-> matches[i].pattern_name,
                 weight |-> MaxWeight(matches, matches[i].pattern_name)] >>
        ELSE << >>])

\* base_score with the cap at 0.5 instead of 0.9.
base_score_capped_low(matches) ==
    LET uw == unique_weights(matches)
    IN  FMin(FSumFrom(FZero, [i \in 1..Len(uw) |-> uw[i].weight]), FLit(500))

\* base_score summing the weight of every match instead of one per rule.
base_score_stacking(matches) ==
    FMin(FSumFrom(FZero, [i \in 1..Len(matches) |-> matches[i].weight]), BASE_CAP)

\* base_score without the cap at 0.9.
base_score_uncapped(matches) ==
    LET uw == unique_weights(matches)
    IN  FSumFrom(FZero, [i \in 1..Len(uw) |-> uw[i].weight])

\* base_score = min(sum(unique_weights.values()), 0.9)
base_score(matches) ==
    LET uw == unique_weights(matches)
    IN  FMin(FSumFrom(FZero, [i \in 1..Len(uw) |-> uw[i].weight]), BASE_CAP)

\* The penalty loop applying only the largest penalty of those that fired.
penalized_score_strongest_only(base, negatives) ==
    IF negatives = << >> THEN base
    ELSE FAdd(base, negatives[CHOOSE i \in 1..Len(negatives) :
                        /\ \A j \in 1..Len(negatives) :
                              ~FLess(negatives[j][2], negatives[i][2])
                        /\ \A j \in 1..(i - 1) :
                              FLess(negatives[i][2], negatives[j][2])][2])

\* The penalty loop with "base_score -= penalty".
penalized_score_subtracting(base, negatives) ==
    FSumFrom(base, [i \in 1..Len(negatives) |-> FNeg(negatives[i][2])])

\* base_score after "for _name, penalty in negatives: base_score += penalty".
penalized_score(base, negatives) ==
    FSumFrom(base, [i \in 1..Len(negatives) |-> negatives[i][2]])

\* final_score without the clamp to [0.0, 1.0].
final_score_unclamped(penalized, nlp_bonus) == FAdd(penalized, nlp_bonus)

\* final_score = max(0.0, min(1.0, base_score + nlp_bonus))
final_score(penalized, nlp_bonus) ==
    FMax(FZero, FMin(ONE, FAdd(penalized, nlp_bonus)))

\* A best match that is the match of the largest weight that starts first in
\* the document, whichever rule produced it.
best_match_earliest(matches) ==
    matches[CHOOSE i \in 1..Len(matches) :
                /\ \A j \in 1..Len(matches) : ~FLess(matches[i].weight, matches[j].weight)
                /\ \A j \in 1..Len(matches) :
                      ~FLess(matches[j].weight, matches[i].weight) =>
                          \/ matches[i].start < matches[j].start
                          \/ matches[i].start = matches[j].start /\ i <= j]

\* A best match that is the last match of the largest weight.
best_match_last(matches) ==
    matches[CHOOSE i \in 1..Len(matches) :
                /\ \A j \in 1..Len(matches) : ~FLess(matches[i].weight, matches[j].weight)
                /\ \A j \in (i + 1)..Len(matches) : FLess(matches[j].weight, matches[i].weight)]

\* max(matches, key=lambda m: m.weight): the first match of the largest weight.
best_match(matches) ==
    matches[CHOOSE i \in 1..Len(matches) :
                /\ \A j \in 1..Len(matches) : ~FLess(matches[i].weight, matches[j].weight)
                /\ \A j \in 1..(i - 1) : FLess(matches[j].weight, matches[i].weight)]

Min(a, b) == IF a < b THEN a ELSE b

Max(a, b) == IF a > b THEN a ELSE b

\* The window of _extract_context(text, start, end, window): the bounds
\* ctx_start and ctx_end of the slice the excerpt is cut from.
context_window(text, start, end, window) ==
    [ctx_start |-> Max(0, start - window),
     ctx_end   |-> Min(TextLen(text), end + window)]

\* list({m.pattern_name for m in matches}): the distinct names, in the
\* iteration order of a set of strings, which follows the string hashes of
\* the process.  Two of the orders are modelled: declaration order
\* (order = 0) and its reverse (order = 1).
pattern_names(matches, order) ==
    LET fired == { matches[i].pattern_name : i \in 1..Len(matches) }
        decl  == Flatten([r \in 1..Len(PRIZE_PATTERNS) |->
                    IF PRIZE_PATTERNS[r].name \in fired
                    THEN << PRIZE_PATTERNS[r].name >> ELSE << >>])
    IN  IF order = 0 THEN decl
        ELSE [i \in 1..Len(decl) |-> decl[Len(decl) + 1 - i]]

\* A DetectionResult whose best match is looked up through the list of
\* pattern names: the first match of the name the list starts with.
DetectionResult_by_name_order(text, matches, final, order) ==
    LET names == pattern_names(matches, order)
        best  == matches[CHOOSE i \in 1..Len(matches) :
                            /\ matches[i].pattern_name = names[1]
                            /\ \A j \in 1..(i - 1) : matches[j].pattern_name # names[1]]
    IN  [confidence    |-> FRound3(final),
         matches       |-> matches,
         matched_text  |-> best.matched_text,
         context       |-> context_window(text, best.start, best.end, 300),
         pattern_names |-> names]

\* The DetectionResult analyze builds.
DetectionResult(text, matches, final, order) ==
    LET best == best_match(matches)
    IN  [confidence    |-> FRound3(final),
         matches       |-> matches,
         matched_text  |-> best.matched_text,
         context       |-> context_window(text, best.start, best.end, 300),
         pattern_names |-> pattern_names(matches, order)]

\* analyze without the early return at "if not matches".
analyze_locals_no_early_return(nlp, text, ner) ==
    LET matches   == find_all_matches(text)
        negatives == find_negative_matches(text)
        base      == base_score(matches)
        penalized == penalized_score(base, negatives)
        nlp_bonus == score_context(nlp, text, ner, matches)
        final     == final_score(penalized, nlp_bonus)
    IN  [matches |-> matches, consulted |-> TRUE, negatives |-> negatives,
         base_score |-> base, penalized |-> penalized, nlp_bonus |-> nlp_bonus,
         final_score |-> final,
         returns |-> matches # << >> /\ ~FLess(final, FLOOR)]

\* Detector.analyze(text) up to the floor test, on a detector whose scorer
\* has nlp loaded or not: the locals of the call.  A call that returns at
\* "if not matches" computes nothing else: consulted tells whether
\* find_negative_matches and score_context were called.  returns tells
\* whether the call goes on to build a DetectionResult.
analyze_locals(nlp, text, ner) ==
    LET matches   == find_all_matches(text)
        negatives == find_negative_matches(text)
        base      == base_score(matches)
        penalized == penalized_score(base, negatives)
        nlp_bonus == score_context(nlp, text, ner, matches)
        final     == final_score(penalized, nlp_bonus)
    IN  IF matches = << >>
        THEN [matches |-> << >>, consulted |-> FALSE, negatives |-> << >>,
              base_score |-> FZero, penalized |-> FZero, nlp_bonus |-> FZero,
              final_score |-> FZero, returns |-> FALSE]
        ELSE [matches |-> matches, consulted |-> TRUE, negatives |-> negatives,
              base_score |-> base, penalized |-> penalized, nlp_bonus |-> nlp_bonus,
              final_score |-> final, returns |-> ~FLess(final, FLOOR)]

\* analyze without the floor test "if final_score < 0.1: return None".
analyze_no_floor(locals, text, order) ==
    IF locals.matches # << >>
    THEN << DetectionResult(text, locals.matches, locals.final_score, order) >>
    ELSE << >>

\* What Detector.analyze(text) returns, given the locals of the call:
\* << >> for None and << result >> for a DetectionResult.
analyze(locals, text, order) ==
    IF locals.returns
    THEN << DetectionResult(text, locals.matches, locals.final_score, order) >>
    ELSE << >>

(***************************************************************************)
(* The state machine: two detectors, constructed with or without the       *)
(* linguistic processor, are called on one document.                       *)
(***************************************************************************)
VARIABLES
    text,   \* the document: a sequence of phrases
    ner,    \* the entity labelling the linguistic processor gives the document
    nlp,    \* nlp[d]: detector d's scorer loaded the processor (self._nlp is set)
    last,   \* last[d]: << >>, or << the locals and the return value of d's last analyze call >>
    built,  \* built[d]: "unbuilt" before Detector() is called, then "built", or "raised" when the constructor raised
    args,   \* << >>, or << the arguments of a call of _extract_context >>
    excerpt, \* << >>, or << the excerpt that call returned >>
    docs,   \* the store: docs[id] is the status, the text and the last detection of a document
    results, \* the store: the set of the results inserted
    threshold, \* settings.min_confidence_threshold, in thousandths
    stop,   \* stop.pipeline is SearchPipeline._stop_requested, stop.engine is SearchEngine._stop_requested
    pc,     \* where the thread that calls SearchPipeline.run is
    work,   \* the list a phase of run iterates over and the number of its items done
    detector, \* self._detector: for each text of a page, what its analyze may return
    stopper, \* where the thread that calls request_stop is
    progress, \* << >>, or << the last update the run delivered to progress_callback >>
    db,     \* the database: the rows of its four tables
    log,    \* what was passed to the database since its last reset, and the searches made
    disc,   \* where a call of SearchEngine.run_discovery on the database is
    given,  \* << >>, or << the document and the matches of a call of score_context >>
    run     \* where that call is, and its local score

vars == << text, ner, nlp, last, built, args, excerpt,
           docs, results, threshold, stop, pc, work, detector, stopper, progress,
           db, log, disc, given, run >>

\* The variables of the search pipeline.
pipelineVars == << docs, results, threshold, stop, pc, work, detector, stopper, progress >>

\* There is no pipeline.
NoPipeline ==
    /\ docs = << >>
    /\ results = { }
    /\ threshold = 0
    /\ stop = [pipeline |-> FALSE, engine |-> FALSE]
    /\ pc = "none"
    /\ work = [items |-> << >>, i |-> 0]
    /\ detector = << >>
    /\ stopper = "none"
    /\ progress = << >>

\* The variables of the calls of _extract_context on its own.
excerptVars == << args, excerpt >>

\* No call of _extract_context on its own is under way.
NoExcerptCall == args = << >> /\ excerpt = << >>

\* The variables of the database on its own.
databaseVars == << db, log, disc >>

\* There is no database.
NoDatabase == db = << >> /\ log = << >> /\ disc = << >>

\* The variables of the calls of score_context on its own.
scorerVars == << given, run >>

\* No call of score_context on its own is under way.
NoScorerCall == given = << >> /\ run = << >>

Detectors == { 1, 2 }

\* Detector.__init__ / NLPScorer.__init__ have run: the load of the processor
\* succeeded or raised ImportError/OSError, which the constructor catches.
Init ==
    /\ text \in Texts
    /\ ner \in Labellings(text)
    /\ nlp \in [Detectors -> BOOLEAN]
    /\ last = [d \in Detectors |-> << >>]
    /\ built = [d \in Detectors |-> "built"]
    /\ NoExcerptCall
    /\ NoPipeline
    /\ NoDatabase
    /\ NoScorerCall

\* The calls analyze(text) a detector may make: the locals and the return
\* value, for every iteration order of the set of pattern names.
analyze_calls(nlp_d, doc_text, doc_ner) ==
    LET locals == analyze_locals(nlp_d, doc_text, doc_ner)
    IN  { [locals |-> locals, ret |-> analyze(locals, doc_text, order)] : order \in 0..1 }

\* detector d analyses the document.
Analyze(d) ==
    /\ built[d] = "built"
    /\ \E call \in analyze_calls(nlp[d], text, ner) :
          last' = [last EXCEPT ![d] = << call >>]
    /\ UNCHANGED << text, ner, nlp, built, excerptVars, pipelineVars, databaseVars, scorerVars >>

Next == \E d \in Detectors : Analyze(d)

Spec == Init /\ [][Next]_vars

(***************************************************************************)
(* The life of a detector from its construction on.                        *)
(***************************************************************************)
\* What "import spacy; spacy.load("en_core_web_sm")" does: it returns the
\* processor, or raises ImportError (the package is missing) or OSError (the
\* model is missing).
LoadOutcomes == { "loaded", "ImportError", "OSError" }

\* NLPScorer.__init__ with "except ImportError" only.
NLPScorer_init_import_only(outcome) ==
    [_nlp   |-> outcome = "loaded",
     raised |-> outcome \notin { "loaded", "ImportError" }]

\* NLPScorer.__init__: self._nlp is None unless the load succeeded; the
\* exceptions of the classes in "except (ImportError, OSError)" are caught
\* and logged, any other propagates.
NLPScorer_init(outcome) ==
    [_nlp   |-> outcome = "loaded",
     raised |-> outcome \notin { "loaded", "ImportError", "OSError" }]

\* No detector is constructed yet.
LifecycleInit ==
    /\ text \in Texts
    /\ ner \in Labellings(text)
    /\ nlp = [d \in Detectors |-> FALSE]
    /\ last = [d \in Detectors |-> << >>]
    /\ built = [d \in Detectors |-> "unbuilt"]
    /\ NoExcerptCall
    /\ NoPipeline
    /\ NoDatabase
    /\ NoScorerCall

\* Detector(): self._scorer = NLPScorer().
Construct(d) ==
    /\ built[d] = "unbuilt"
    /\ \E outcome \in LoadOutcomes :
          LET scorer == NLPScorer_init(outcome)
          IN  /\ built' = [built EXCEPT ![d] = IF scorer.raised THEN "raised" ELSE "built"]
              /\ nlp' = [nlp EXCEPT ![d] = scorer._nlp]
    /\ UNCHANGED << text, ner, last, excerptVars, pipelineVars, databaseVars, scorerVars >>

LifecycleNext == \E d \in Detectors : Construct(d) \/ Analyze(d)

LifecycleSpec == LifecycleInit /\ [][LifecycleNext]_vars

(***************************************************************************)
(* Detector._extract_context on its own, on texts given character by       *)
(* character.                                                              *)
(***************************************************************************)
\* The longest text, and the largest window, of the calls.
MaxChars == 5

MaxWindow == 2

\* The characters of the texts: a letter, a full stop and a space.
Alphabet == { "a", ".", " " }

CharTexts == SeqsUpTo(Alphabet, MaxChars)

\* s[a:b] for 0 <= a and 0 <= b.
Slice(s, a, b) == SubSeq(s, a + 1, Min(b, Len(s)))

\* s.strip(): without its leading and trailing whitespace.
strip(s) ==
    LET kept == { i \in 1..Len(s) : s[i] # " " }
    IN  IF kept = { } THEN << >>
        ELSE SubSeq(s, CHOOSE i \in kept : \A j \in kept : i <= j,
                       CHOOSE i \in kept : \A j \in kept : j <= i)

\* s.find(sub): the lowest index at which sub occurs in s, or -1.
find(s, sub) ==
    LET at == { i \in 0..(Len(s) - Len(sub)) : SubSeq(s, i + 1, i + Len(sub)) = sub }
    IN  IF at = { } THEN -1 ELSE CHOOSE i \in at : \A j \in at : i <= j

\* _extract_context whose window ends one character further on the right.
extract_context_inclusive_end(s, start, end, window) ==
    LET ctx_start    == Max(0, start - window)
        ctx_end      == Min(Len(s), end + window + 1)
        stripped     == strip(Slice(s, ctx_start, ctx_end))
        first_period == find(stripped, << ".", " " >>)
    IN  IF ctx_start > 0 /\ 0 < first_period /\ first_period < 100
        THEN Slice(stripped, first_period + 2, Len(stripped))
        ELSE stripped

\* Detector._extract_context(text, start, end, window).
extract_context(s, start, end, window) ==
    LET ctx_start    == Max(0, start - window)
        ctx_end      == Min(Len(s), end + window)
        stripped     == strip(Slice(s, ctx_start, ctx_end))
        first_period == find(stripped, << ".", " " >>)
    IN  IF ctx_start > 0 /\ 0 < first_period /\ first_period < 100
        THEN Slice(stripped, first_period + 2, Len(stripped))
        ELSE stripped

\* The calls _extract_context(text, start, end, window) with a span inside
\* the text.
ExcerptCalls ==
    { c \in [text : CharTexts, start : 0..MaxChars, end : 0..MaxChars, window : 0..MaxWindow] :
        c.start <= c.end /\ c.end <= Len(c.text) }

\* A call is about to be made.
ExcerptInit ==
    /\ text = << >>
    /\ ner = { }
    /\ nlp = [d \in Detectors |-> FALSE]
    /\ last = [d \in Detectors |-> << >>]
    /\ built = [d \in Detectors |-> "unbuilt"]
    /\ args \in { << c >> : c \in ExcerptCalls }
    /\ excerpt = << >>
    /\ NoPipeline
    /\ NoDatabase
    /\ NoScorerCall

\* The call returns.
ExtractContext ==
    /\ args # << >> /\ excerpt = << >>
    /\ excerpt' = << extract_context(args[1].text, args[1].start, args[1].end, args[1].window) >>
    /\ UNCHANGED << text, ner, nlp, last, built, args, pipelineVars, databaseVars, scorerVars >>

ExcerptNext == ExtractContext

ExcerptSpec == ExcerptInit /\ [][ExcerptNext]_vars

(***************************************************************************)
(* search/pipeline.py: SearchPipeline.run in one thread and request_stop   *)
(* in another, over the store of documents and results.                    *)
(***************************************************************************)
\* The number of documents the store can hold, and the number of queries of
\* a discovery (DISCOVERY_QUERIES times the providers, and the crawl).
MaxDocs == 2

MaxQueries == 2

DocIds == 1..MaxDocs

\* The values of settings.min_confidence_threshold, in thousandths.
Thresholds == { 100, 300 }

\* The detector of the pipeline (self._detector).
PipelineDetector == 1

\* What the parser extracts from a page that was fetched: a text of 100
\* characters or more, or a shorter one.
PageTexts ==
    { << "ReadFar" >>, << "Eligibility", "Enter" >>, << "Official", "Official" >>,
      << "Limited" >> }

\* The outcomes of self._fetcher.fetch(doc.url) and of the extraction.
FetchOutcomes == { << "failed", << >> >> } \cup { << "success", t >> : t \in PageTexts }

\* A row of the table documents, with its row of document_texts (<< >> when
\* there is none) and what analyze returned for it (<< >>, or
\* << its confidence >>).
Document(status, doc_text, detection) ==
    [status |-> status, text |-> doc_text, detection |-> detection]

\* A row of the table results, and the threshold it was inserted under.
Result(document_id, confidence, thr) ==
    [document_id |-> document_id, confidence |-> confidence, threshold |-> thr]

\* A SearchProgress delivered to progress_callback: its phase, its
\* current_action (the message, without its counts) and is_running.
SearchProgress(phase, current_action, is_running) ==
    [phase |-> phase, current_action |-> current_action, is_running |-> is_running]

\* What self._report(phase, action) delivers.
report(phase, action) == << SearchProgress(phase, action, TRUE) >>

\* get_fetched_documents selecting the analysed documents too.
documents_with_status_or_analyzed(status) ==
    Flatten([id \in DocIds |->
        IF docs[id].status \in { status, "analyzed" } THEN << id >> ELSE << >>])

\* get_pending_documents / get_fetched_documents: the documents of a status.
documents_with_status(status) ==
    Flatten([id \in DocIds |-> IF docs[id].status = status THEN << id >> ELSE << >>])

\* What Detector.analyze(text) may return for a text, on a detector with the
\* linguistic processor loaded or not.
analyze_returns(nlp_d, doc_text) ==
    { c.ret : c \in UNION { analyze_calls(nlp_d, doc_text, n) : n \in Labellings(doc_text) } }

\* The test of _run_analysis that stores whatever was detected.
is_finding_any(detection, thr) == detection # << >>

\* "detection and detection.confidence >= self._settings.min_confidence_threshold".
is_finding(detection, thr) ==
    detection # << >> /\ detection[1].confidence >= thr

\* A pipeline was constructed on a store that holds no document, or
\* documents marked fetched that have no text.  Its detector is a pure
\* function of the text and of what the linguistic processor makes of it.
PipelineInit ==
    /\ text = << >>
    /\ ner = { }
    /\ \E loaded \in BOOLEAN :
          /\ nlp = [d \in Detectors |-> d = PipelineDetector /\ loaded]
          /\ detector = [t \in PageTexts |-> analyze_returns(loaded, t)]
    /\ last = [d \in Detectors |-> << >>]
    /\ built = [d \in Detectors |-> IF d = PipelineDetector THEN "built" ELSE "unbuilt"]
    /\ NoExcerptCall
    /\ NoDatabase
    /\ NoScorerCall
    /\ docs \in [DocIds -> { Document("absent", << >>, << >>),
                             Document("fetched", << >>, << >>) }]
    /\ results = { }
    /\ threshold \in Thresholds
    /\ stop = [pipeline |-> FALSE, engine |-> FALSE]
    /\ pc = "idle"
    /\ work = [items |-> << >>, i |-> 0]
    /\ stopper = "idle"
    /\ progress = << >>

detectorVars == << text, ner, nlp, last, built, detector >>

\* SearchPipeline(settings, db, callback): a new pipeline on the same store,
\* with the settings of the moment.
NewPipeline ==
    /\ pc \in { "idle", "done" }
    /\ stopper \in { "idle", "called" }
    /\ stop' = [pipeline |-> FALSE, engine |-> FALSE]
    /\ pc' = "idle"
    /\ stopper' = "idle"
    /\ threshold' \in Thresholds
    /\ work' = [items |-> << >>, i |-> 0]
    /\ UNCHANGED << detectorVars, excerptVars, databaseVars, scorerVars, docs, results, progress >>

\* run() is called: phase 1 starts.
Run ==
    /\ pc \in { "idle", "done" }
    /\ pc' = "discovery"
    /\ work' = [items |-> << >>, i |-> 0]
    /\ progress' = report("discovery", "Starting URL discovery...")
    /\ UNCHANGED << detectorVars, excerptVars, databaseVars, scorerVars, docs, results, threshold, stop, stopper >>

\* SearchEngine.run_discovery: one turn of its loops.  It returns when its
\* own flag is set or the queries are done; otherwise a query is run and the
\* urls that are new are inserted as pending documents.
DiscoveryStep ==
    /\ pc = "discovery"
    /\ IF stop.engine \/ work.i = MaxQueries
       THEN /\ pc' = "discovered"
            /\ UNCHANGED << docs, work, progress >>
       ELSE /\ \E found \in SUBSET { id \in DocIds : docs[id].status = "absent" } :
                  docs' = [id \in DocIds |->
                              IF id \in found THEN Document("pending", << >>, << >>)
                              ELSE docs[id]]
            /\ work' = [work EXCEPT !.i = work.i + 1]
            /\ progress' = report("discovery", "Searching...")
            /\ UNCHANGED pc
    /\ UNCHANGED << detectorVars, excerptVars, databaseVars, scorerVars, results, threshold, stop, stopper >>

\* run(), after run_discovery: "if self._stop_requested: ... return", else
\* phase 2 starts with the list of the pending documents.
AfterDiscovery ==
    /\ pc = "discovered"
    /\ IF stop.pipeline
       THEN /\ pc' = "done"
            /\ progress' = report("complete", "Search stopped by user.")
            /\ UNCHANGED work
       ELSE /\ pc' = "fetching"
            /\ work' = [items |-> documents_with_status("pending"), i |-> 0]
            /\ progress' = report("fetching", "Fetching discovered documents...")
    /\ UNCHANGED << detectorVars, excerptVars, databaseVars, scorerVars, docs, results, threshold, stop, stopper >>

\* _run_fetching: the head of the loop, "if self._stop_requested: return".
FetchCheck ==
    /\ pc = "fetching"
    /\ pc' = IF work.i = Len(work.items) \/ stop.pipeline THEN "fetched_all" ELSE "fetch_item"
    /\ UNCHANGED << detectorVars, excerptVars, databaseVars, scorerVars, docs, results, threshold, stop, work, stopper, progress >>

\* _run_fetching: the body of the loop for one document.
FetchItem ==
    /\ pc = "fetch_item"
    /\ \E outcome \in FetchOutcomes :
          LET id == work.items[work.i + 1]
          IN  docs' = [docs EXCEPT ![id] =
                  IF outcome[1] = "success" /\ outcome[2] # << >>
                  THEN IF TextLen(outcome[2]) < 100
                       THEN Document("error", << >>, << >>)
                       ELSE Document("fetched", outcome[2], << >>)
                  ELSE Document("error", << >>, << >>)]
    /\ work' = [work EXCEPT !.i = work.i + 1]
    /\ pc' = "fetching"
    /\ progress' = report("fetching", "Fetching...")
    /\ UNCHANGED << detectorVars, excerptVars, databaseVars, scorerVars, results, threshold, stop, stopper >>

\* run(), after _run_fetching: "if self._stop_requested: ... return", else
\* phase 3 starts with the list of the fetched documents.
AfterFetching ==
    /\ pc = "fetched_all"
    /\ IF stop.pipeline
       THEN /\ pc' = "done"
            /\ progress' = report("complete", "Search stopped by user.")
            /\ UNCHANGED work
       ELSE /\ pc' = "analysis"
            /\ work' = [items |-> documents_with_status("fetched"), i |-> 0]
            /\ progress' = report("analyzing", "Analyzing documents for hidden prizes...")
    /\ UNCHANGED << detectorVars, excerptVars, databaseVars, scorerVars, docs, results, threshold, stop, stopper >>

\* _run_analysis without "if self._stop_requested: return" in its loop.
AnalysisCheck_unchecked ==
    /\ pc = "analysis"
    /\ pc' = IF work.i = Len(work.items) THEN "complete" ELSE "analyze_item"
    /\ UNCHANGED << detectorVars, excerptVars, databaseVars, scorerVars, docs, results, threshold, stop, work, stopper, progress >>

\* _run_analysis: the head of the loop, "if self._stop_requested: return".
AnalysisCheck ==
    /\ pc = "analysis"
    /\ pc' = IF work.i = Len(work.items) \/ stop.pipeline THEN "complete" ELSE "analyze_item"
    /\ UNCHANGED << detectorVars, excerptVars, databaseVars, scorerVars, docs, results, threshold, stop, work, stopper, progress >>

\* _run_analysis: the body of the loop for one document.
AnalyzeItem ==
    /\ pc = "analyze_item"
    /\ LET id == work.items[work.i + 1]
       IN  IF docs[id].text = << >>
           THEN /\ docs' = [docs EXCEPT ![id].status = "analyzed"]
                /\ UNCHANGED results
           ELSE \E detection \in detector[docs[id].text] :
                /\ results' =
                      IF is_finding(detection, threshold)
                      THEN results \cup { Result(id, detection[1].confidence, threshold) }
                      ELSE results
                /\ docs' = [docs EXCEPT ![id] =
                      Document("analyzed", docs[id].text,
                               IF detection = << >> THEN << >>
                               ELSE << detection[1].confidence >>)]
    /\ work' = [work EXCEPT !.i = work.i + 1]
    /\ pc' = "analysis"
    /\ progress' = report("analyzing", "Analyzing...")
    /\ UNCHANGED << detectorVars, excerptVars, databaseVars, scorerVars, threshold, stop, stopper >>

\* run(), phase 4: the statistics are reported and run returns.
Complete ==
    /\ pc = "complete"
    /\ pc' = "done"
    /\ progress' = << SearchProgress("complete", "Search complete!", FALSE) >>
    /\ UNCHANGED << detectorVars, excerptVars, databaseVars, scorerVars, docs, results, threshold, stop, work, stopper >>

\* request_stop, its first statement: self._stop_requested = True.
RequestStop ==
    /\ stopper = "idle"
    /\ stop' = [stop EXCEPT !.pipeline = TRUE]
    /\ stopper' = "flag_set"
    /\ UNCHANGED << detectorVars, excerptVars, databaseVars, scorerVars, docs, results, threshold, pc, work, progress >>

\* request_stop, its second statement: self._search_engine.request_stop().
RequestStopEngine ==
    /\ stopper = "flag_set"
    /\ stop' = [stop EXCEPT !.engine = TRUE]
    /\ stopper' = "called"
    /\ UNCHANGED << detectorVars, excerptVars, databaseVars, scorerVars, docs, results, threshold, pc, work, progress >>

\* run(), "except Exception as e": a call of the body raised (the engine in
\* discovery, the parser on a page that was fetched, the detector on a
\* text); the error is reported and run returns.
Fail ==
    /\ pc \in { "discovery", "fetch_item", "analyze_item" }
    /\ pc' = "done"
    /\ progress' = << SearchProgress("error", "Error", FALSE) >>
    /\ UNCHANGED << detectorVars, excerptVars, databaseVars, scorerVars, docs, results, threshold, stop, work, stopper >>

\* The steps of the thread that runs the pipeline.
RunStep ==
    \/ DiscoveryStep
    \/ AfterDiscovery
    \/ FetchCheck
    \/ FetchItem
    \/ AfterFetching
    \/ AnalysisCheck
    \/ AnalyzeItem
    \/ Complete

PipelineNext ==
    \/ NewPipeline
    \/ Run
    \/ RunStep
    \/ RequestStop
    \/ RequestStopEngine

PipelineSpec == PipelineInit /\ [][PipelineNext]_vars

\* The thread that runs the pipeline is scheduled, and every call it makes
\* returns.
PipelineLiveSpec == PipelineInit /\ [][PipelineNext]_vars /\ WF_vars(RunStep)

\* The pipeline when the calls its thread makes may raise.
PipelineFailNext == PipelineNext \/ Fail

PipelineFailSpec == PipelineInit /\ [][PipelineFailNext]_vars

(***************************************************************************)
(* storage/database.py: the database on its own, used through its methods  *)
(* and by SearchEngine.run_discovery (search/engine.py).                   *)
(***************************************************************************)
\* The largest number of rows of the table results.
MaxResults == 1

\* The urls, the statuses and the text of the calls.
Urls == { "a", "b" }

Statuses == { "pending", "fetched", "analyzed", "error" }

DocumentText == "text"

\* DISCOVERY_QUERIES, cut to its first query, and the names of the providers
\* of self._providers.
DISCOVERY_QUERIES == << "terms of service" >>

Providers == << "duckduckgo", "bing" >>

Pairs == { << DISCOVERY_QUERIES[q], Providers[e] >> :
             q \in 1..Len(DISCOVERY_QUERIES), e \in 1..Len(Providers) }

\* What provider.search(query, n) and the crawler may return.
SearchReturns == { << >>, << "a" >>, << "b", "a" >> }

\* _create_tables on a file without tables: the four tables, empty.
create_tables ==
    [documents |-> { }, document_texts |-> { }, results |-> { }, search_queries |-> { }]

\* url_exists(url): "SELECT 1 FROM documents WHERE url = ?".
url_exists(d, url) == \E row \in d.documents : row.url = url

\* insert_document as "INSERT OR REPLACE": the row of the url is replaced.
insert_document_or_replace(d, url, status) ==
    [d EXCEPT !.documents =
        { row \in @ : row.url # url }
            \cup { [id |-> Cardinality(@) + 1, url |-> url, status |-> status] }]

\* insert_document(doc): "INSERT OR IGNORE" into a table whose url is UNIQUE
\* and whose id is AUTOINCREMENT.  The ids grow with the insertions, an
\* ignored INSERT leaving a gap; they are keys only, and the model numbers
\* the rows 1, 2, ... in the order of their ids.
insert_document(d, url, status) ==
    IF \E row \in d.documents : row.url = url
    THEN d
    ELSE [d EXCEPT !.documents =
            @ \cup { [id |-> Cardinality(@) + 1, url |-> url, status |-> status] }]

\* update_document_status(doc_id, status): "UPDATE documents SET status = ?
\* ... WHERE id = ?".
update_document_status(d, doc_id, status) ==
    [d EXCEPT !.documents =
        { IF row.id = doc_id THEN [row EXCEPT !.status = status] ELSE row : row \in @ }]

\* store_document_text(document_id, text): "INSERT OR REPLACE"; the foreign
\* key rejects the id of no document, and the call raises.
store_document_text(d, document_id, doc_text) ==
    IF \A row \in d.documents : row.id # document_id
    THEN d
    ELSE [d EXCEPT !.document_texts =
            { row \in @ : row.document_id # document_id }
                \cup { [document_id |-> document_id, text_content |-> doc_text] }]

\* insert_result(result): "INSERT INTO results"; the foreign key rejects the
\* id of no document, and the call raises.
insert_result(d, document_id, confidence) ==
    IF \A row \in d.documents : row.id # document_id
    THEN d
    ELSE [d EXCEPT !.results =
            @ \cup { [id |-> Cardinality(@) + 1, document_id |-> document_id,
                      confidence |-> confidence] }]

\* query_was_executed(query, engine).
query_was_executed(d, query, engine) ==
    \E row \in d.search_queries : row.query = query /\ row.engine = engine

\* record_query(query, engine, results_count): "INSERT OR IGNORE" into a
\* table with UNIQUE(query, engine).
record_query(d, query, engine, results_count) ==
    IF query_was_executed(d, query, engine)
    THEN d
    ELSE [d EXCEPT !.search_queries =
            @ \cup { [query |-> query, engine |-> engine,
                      results_count |-> results_count] }]

\* get_stats(): the total of count_by_status and count_results().
get_stats(d) ==
    [total   |-> Cardinality(d.documents),
     results |-> Cardinality(d.results)]

\* reset that leaves the table search_queries in place.
reset_keeps_queries(d) == [create_tables EXCEPT !.search_queries = d.search_queries]

\* reset(): the four tables are dropped and created again.
reset(d) == create_tables

RECURSIVE insert_new(_, _)
\* "for url in urls: if not self._db.url_exists(url): insert_document(...)":
\* the store afterwards.
insert_new(d, urls) ==
    IF urls = << >> THEN d
    ELSE insert_new(IF url_exists(d, Head(urls)) THEN d
                    ELSE insert_document(d, Head(urls), "pending"),
                    Tail(urls))

\* The urls that loop passes to insert_document.
new_urls(d, urls) == { urls[i] : i \in { i \in 1..Len(urls) : ~url_exists(d, urls[i]) } }

\* The body of the loops of run_discovery without the test of
\* query_was_executed.
discover_pair_unchecked(d, query, engine, urls) ==
    [db       |-> record_query(insert_new(d, urls), query, engine, Len(urls)),
     searched |-> TRUE,
     inserted |-> new_urls(d, urls)]

\* The body of the loops of run_discovery for one query and one provider,
\* urls being what provider.search returns if it is called: the store
\* afterwards, whether search was called, and the urls inserted.
discover_pair(d, query, engine, urls) ==
    IF query_was_executed(d, query, engine)
    THEN [db |-> d, searched |-> FALSE, inserted |-> { }]
    ELSE [db       |-> record_query(insert_new(d, urls), query, engine, Len(urls)),
          searched |-> TRUE,
          inserted |-> new_urls(d, urls)]

\* Nothing was passed to the database since its last reset.
NoLog(reset_found) ==
    [inserted  |-> { },
     duplicate |-> FALSE,
     recorded  |-> { },
     searched  |-> [pr \in Pairs |-> 0],
     reset     |-> reset_found]

NoDiscovery == [pc |-> "idle", q |-> 1, p |-> 1]

\* connect() on a new file.
DatabaseInit ==
    /\ text = << >>
    /\ ner = { }
    /\ nlp = [d \in Detectors |-> FALSE]
    /\ last = [d \in Detectors |-> << >>]
    /\ built = [d \in Detectors |-> "unbuilt"]
    /\ NoExcerptCall
    /\ NoPipeline
    /\ NoScorerCall
    /\ db = create_tables
    /\ log = NoLog("no")
    /\ disc = NoDiscovery

databaseOthers == << text, ner, nlp, last, built, excerptVars, pipelineVars, scorerVars >>

InsertDocument ==
    /\ disc.pc = "idle"
    /\ \E url \in Urls, status \in Statuses :
          /\ db' = insert_document(db, url, status)
          /\ log' = [log EXCEPT !.inserted = @ \cup { url },
                                !.duplicate = @ \/ url_exists(db, url),
                                !.reset = "no"]
    /\ UNCHANGED << disc, databaseOthers >>

UpdateDocumentStatus ==
    /\ disc.pc = "idle"
    /\ \E doc_id \in 1..Cardinality(Urls), status \in Statuses :
          db' = update_document_status(db, doc_id, status)
    /\ log' = [log EXCEPT !.reset = "no"]
    /\ UNCHANGED << disc, databaseOthers >>

StoreDocumentText ==
    /\ disc.pc = "idle"
    /\ \E document_id \in 1..Cardinality(Urls) :
          db' = store_document_text(db, document_id, DocumentText)
    /\ log' = [log EXCEPT !.reset = "no"]
    /\ UNCHANGED << disc, databaseOthers >>

InsertResult ==
    /\ disc.pc = "idle"
    /\ Cardinality(db.results) < MaxResults
    /\ \E document_id \in 1..Cardinality(Urls) :
          db' = insert_result(db, document_id, 900)
    /\ log' = [log EXCEPT !.reset = "no"]
    /\ UNCHANGED << disc, databaseOthers >>

RecordQuery ==
    /\ disc.pc = "idle"
    /\ \E pr \in Pairs :
          /\ db' = record_query(db, pr[1], pr[2], 0)
          /\ log' = [log EXCEPT !.recorded = @ \cup { pr }, !.reset = "no"]
    /\ UNCHANGED << disc, databaseOthers >>

Reset ==
    /\ disc.pc = "idle"
    /\ db' = reset(db)
    /\ log' = NoLog(IF \E t \in DOMAIN db : db[t] = { } THEN "empty" ELSE "rows")
    /\ UNCHANGED << disc, databaseOthers >>

\* run_discovery is called.
StartDiscovery ==
    /\ disc.pc = "idle"
    /\ disc' = [pc |-> "queries", q |-> 1, p |-> 1]
    /\ log' = [log EXCEPT !.reset = "no"]
    /\ UNCHANGED << db, databaseOthers >>

\* run_discovery: one turn of its loops over the queries and the providers.
\* It returns when the stop flag is found set.
DiscoverPair ==
    /\ disc.pc = "queries"
    /\ \E stop_requested \in BOOLEAN, urls \in SearchReturns :
          IF stop_requested
          THEN disc' = NoDiscovery /\ UNCHANGED << db, log >>
          ELSE LET pair == << DISCOVERY_QUERIES[disc.q], Providers[disc.p] >>
                   done == discover_pair(db, pair[1], pair[2], urls)
               IN  /\ db' = done.db
                   /\ log' = IF done.searched
                             THEN [log EXCEPT !.inserted = @ \cup done.inserted,
                                              !.recorded = @ \cup { pair },
                                              !.searched[pair] = @ + 1]
                             ELSE log
                   /\ disc' = IF disc.p < Len(Providers)
                              THEN [disc EXCEPT !.p = @ + 1]
                              ELSE IF disc.q < Len(DISCOVERY_QUERIES)
                              THEN [disc EXCEPT !.q = @ + 1, !.p = 1]
                              ELSE [disc EXCEPT !.pc = "crawl"]
    /\ UNCHANGED databaseOthers

\* run_discovery: the crawl, unless the stop flag is set; its loop over the
\* candidates returns when the flag is found set.
Crawl ==
    /\ disc.pc = "crawl"
    /\ \E urls \in SearchReturns :
          \E n \in 0..Len(urls) :
              /\ db' = insert_new(db, SubSeq(urls, 1, n))
              /\ log' = [log EXCEPT !.inserted = @ \cup new_urls(db, SubSeq(urls, 1, n))]
    /\ disc' = NoDiscovery
    /\ UNCHANGED databaseOthers

DatabaseNext ==
    \/ InsertDocument
    \/ UpdateDocumentStatus
    \/ StoreDocumentText
    \/ InsertResult
    \/ RecordQuery
    \/ Reset
    \/ StartDiscovery
    \/ DiscoverPair
    \/ Crawl

DatabaseSpec == DatabaseInit /\ [][DatabaseNext]_vars

(***************************************************************************)
(* analyzer/scorer.py: NLPScorer.score_context on its own, statement by    *)
(* statement, on what the processor returned for the text: its tokens, its *)
(* sentences and its entities.                                             *)
(***************************************************************************)
\* The longest token sequence, and the longest match list, of the calls.
MaxTokens == 3

MaxMatches == 2

LEGAL_INDICATORS ==
    { "hereby", "whereas", "notwithstanding", "herein", "pursuant",
      "indemnify", "liability", "arbitration", "jurisdiction",
      "governing", "warranties", "disclaimers", "severability",
      "termination", "confidentiality", "intellectual" }

\* The texts of the tokens: two spellings of one legal term, another legal
\* term in capitals, and a word that is not a legal term.
TokenTexts == { "hereby", "Hereby", "LIABILITY", "prize" }

\* token.text.lower()
lower(s) ==
    CASE s = "Hereby"    -> "hereby"
      [] s = "LIABILITY" -> "liability"
      [] OTHER           -> s

\* legal_count that counts each term of LEGAL_INDICATORS once, however often
\* it occurs.
legal_count_distinct_terms(tokens) ==
    Cardinality({ lower(tokens[i]) : i \in 1..Len(tokens) } \cap LEGAL_INDICATORS)

\* legal_count = sum(1 for token in doc if token.text.lower() in
\* LEGAL_INDICATORS)
RECURSIVE legal_count(_)
legal_count(tokens) ==
    IF tokens = << >> THEN 0
    ELSE (IF lower(Head(tokens)) \in LEGAL_INDICATORS THEN 1 ELSE 0) + legal_count(Tail(tokens))

\* What step 1 of score_context adds: 0.1 if legal_count >= 3.
LegalBonus(tokens) == IF legal_count(tokens) >= 3 THEN << LEGAL_BONUS >> ELSE << >>

\* A sentence of the doc: its span and what its text holds.
Sent(start_char, end_char, action, if_you) ==
    [start_char |-> start_char, end_char |-> end_char, action |-> action, if_you |-> if_you]

\* The sentences of the docs: none, one over [0, 5), or that one followed by
\* a sentence to offset 9 that starts where the first ends or one character
\* after it.
SentLists ==
    { << >> }
    \cup { << Sent(0, 5, a, b) >> : a, b \in BOOLEAN }
    \cup { << Sent(0, 5, f[1], f[2]), Sent(s, 9, f[3], f[4]) >> :
             f \in [1..4 -> BOOLEAN], s \in { 5, 6 } }

\* The entities of the docs: up to two, at offsets 2 and 305, each labelled
\* MONEY or CARDINAL.
EntLists ==
    { << >> }
    \cup { << [label_ |-> l, start_char |-> 2] >> : l \in { "MONEY", "CARDINAL" } }
    \cup { << [label_ |-> l, start_char |-> 305] >> : l \in { "MONEY", "CARDINAL" } }
    \cup { << [label_ |-> l, start_char |-> 2], [label_ |-> k, start_char |-> 305] >> :
             l, k \in { "MONEY", "CARDINAL" } }

\* The matches, of which score_context reads the start only: starts inside
\* and at the ends of the sentences, and 299, 300 and more characters from
\* the entities.
MatchStarts == { 0, 5, 6, 9, 302 }

MatchLists == SeqsUpTo({ [start |-> s] : s \in MatchStarts }, MaxMatches)

\* The calls score_context(text, matches), by whether self._nlp is loaded
\* and by the doc self._nlp(text[:100_000]): every token sequence with few
\* sentences and matches, and few token sequences with every list of
\* sentences, entities and matches.
ScorerCalls ==
    { [nlp |-> n, tokens |-> t, sents |-> s, ents |-> << >>, matches |-> m] :
        n \in BOOLEAN,
        t \in SeqsUpTo(TokenTexts, MaxTokens),
        s \in { << >>, << Sent(0, 5, TRUE, TRUE) >> },
        m \in { << >>, << [start |-> 0] >> } }
    \cup
    { [nlp |-> TRUE, tokens |-> t, sents |-> s, ents |-> e, matches |-> m] :
        t \in { << >>, << "hereby", "Hereby", "LIABILITY" >> },
        s \in SentLists,
        e \in EntLists,
        m \in MatchLists }

\* A call is about to be made.
ScorerInit ==
    /\ text = << >>
    /\ ner = { }
    /\ nlp = [d \in Detectors |-> FALSE]
    /\ last = [d \in Detectors |-> << >>]
    /\ built = [d \in Detectors |-> "unbuilt"]
    /\ NoExcerptCall
    /\ NoPipeline
    /\ NoDatabase
    /\ given \in { << c >> : c \in ScorerCalls }
    /\ run = [pc |-> "called", score |-> FZero]

scorerOthers == << detectorVars, excerptVars, pipelineVars, databaseVars, given >>

\* if not self._nlp or not matches: return 0.0; otherwise score = 0.0.
ScoreStart ==
    /\ given # << >> /\ run.pc = "called"
    /\ run' = [pc    |-> IF ~given[1].nlp \/ given[1].matches = << >>
                         THEN "returned" ELSE "legal",
               score |-> FZero]
    /\ UNCHANGED scorerOthers

\* 1. legal_count = ...; if legal_count >= 3: score += 0.1
ScoreLegal ==
    /\ given # << >> /\ run.pc = "legal"
    /\ run' = [pc    |-> "sentences",
               score |-> FSumFrom(run.score, LegalBonus(given[1].tokens))]
    /\ UNCHANGED scorerOthers

\* 2. for match in matches: for sent in doc.sents: ...
ScoreSentences ==
    /\ given # << >> /\ run.pc = "sentences"
    /\ run' = [pc    |-> "entities",
               score |-> FSumFrom(run.score,
                            Flatten([i \in 1..Len(given[1].matches) |->
                                SentenceBonus(given[1], given[1].matches[i])]))]
    /\ UNCHANGED scorerOthers

\* 3. for ent in doc.ents: if ent.label_ == "MONEY": ...
ScoreEntities ==
    /\ given # << >> /\ run.pc = "entities"
    /\ run' = [pc    |-> "capping",
               score |-> FSumFrom(run.score,
                            Flatten([i \in 1..Len(given[1].ents) |->
                                EntityBonus(given[1].ents[i], given[1].matches)]))]
    /\ UNCHANGED scorerOthers

\* return min(score, 0.4)
ScoreReturn ==
    /\ given # << >> /\ run.pc = "capping"
    /\ run' = [pc |-> "returned", score |-> FMin(run.score, BONUS_CAP)]
    /\ UNCHANGED scorerOthers

ScorerNext ==
    \/ ScoreStart
    \/ ScoreLegal
    \/ ScoreSentences
    \/ ScoreEntities
    \/ ScoreReturn

ScorerSpec == ScorerInit /\ [][ScorerNext]_vars

(***************************************************************************)
(* Properties.                                                             *)
(***************************************************************************)
Called(d) == last[d] # << >>

Locals(d) == last[d][1].locals

Ret(d) == last[d][1].ret

Returned(d) == Called(d) /\ Ret(d) # << >>

\* The names of the rules that fired.
Fired(matches) == { matches[i].pattern_name : i \in 1..Len(matches) }

\* The names of the negative rules that fired.
FiredNegatives(negatives) == { negatives[i][1] : i \in 1..Len(negatives) }

\* C1: a returned DetectionResult has its confidence in [0.0, 1.0], and the
\* final score it rounds is in [0.0, 1.0] too.
C1_ConfidenceInUnitInterval ==
    \A d \in Detectors :
        Returned(d) =>
            /\ Ret(d)[1].confidence \in 0..1000
            /\ ~FLess(Locals(d).final_score, FZero)
            /\ ~FLess(ONE, Locals(d).final_score)

\* A call whose score before the clamp is above 1.0 and which returns 1.0.
C1_Witness ==
    \E d \in Detectors :
        /\ Returned(d)
        /\ FLess(ONE, FAdd(Locals(d).penalized, Locals(d).nlp_bonus))
        /\ Ret(d)[1].confidence = 1000

\* C2: a call with a non-empty match list whose final score is below 0.1
\* returns nothing, and every returned DetectionResult has confidence >= 0.1.
C2_FloorRejection ==
    \A d \in Detectors :
        Called(d) =>
            /\ (Locals(d).matches # << >> /\ FLess(Locals(d).final_score, FLOOR))
                    => Ret(d) = << >>
            /\ Returned(d) => Ret(d)[1].confidence >= 100

\* A call with matches that returns nothing.
C2_Witness ==
    \E d \in Detectors :
        /\ Called(d)
        /\ Locals(d).matches # << >>
        /\ FLess(Locals(d).final_score, FLOOR)
        /\ Ret(d) = << >>

\* No positive rule has an occurrence in the text.
NoOccurrence(t) ==
    \A r \in 1..Len(PRIZE_PATTERNS), i \in 1..Len(t) :
        finditer(PRIZE_PATTERNS[r].name, t[i]) = << >>

\* C3: on a text in which no positive rule occurs, the empty text included,
\* find_all_matches returns the empty sequence and analyze returns nothing
\* without calling find_negative_matches or score_context.
C3_NoMatchReturnsNothing ==
    /\ NoOccurrence(<< >>)
    /\ NoOccurrence(text) => find_all_matches(text) = << >>
    /\ \A d \in Detectors :
          (Called(d) /\ NoOccurrence(text)) =>
              /\ Locals(d).matches = << >>
              /\ Ret(d) = << >>
              /\ ~Locals(d).consulted

\* A call, by a detector with the linguistic processor, on a text in which
\* no positive rule occurs and a negative rule does.
C3_Witness ==
    \E d \in Detectors :
        /\ Called(d)
        /\ nlp[d]
        /\ NoOccurrence(text)
        /\ \E r \in 1..Len(NEGATIVE_PATTERNS) : search(NEGATIVE_PATTERNS[r].name, text)

\* The base score of a set of rule names: the weights of the rules of the
\* set, one each, summed in declaration order and capped at 0.9.
BaseOfFired(fired) ==
    FMin(FSumFrom(FZero, Flatten([r \in 1..Len(PRIZE_PATTERNS) |->
                                     IF PRIZE_PATTERNS[r].name \in fired
                                     THEN << PRIZE_PATTERNS[r].weight >> ELSE << >>])),
         BASE_CAP)

\* C4: the base score of a call is a function of the set of the rules that
\* fired alone: it is the base score of that set with every rule counted once,
\* however many matches each rule has.
C4_DiminishingReturns ==
    \A d \in Detectors :
        (Called(d) /\ Locals(d).consulted) =>
            Locals(d).base_score = BaseOfFired(Fired(Locals(d).matches))

\* A call in which a rule fired more than once and the base score is under
\* the cap.
C4_Witness ==
    \E d \in Detectors :
        /\ Called(d)
        /\ \E i, j \in 1..Len(Locals(d).matches) :
              /\ i < j
              /\ Locals(d).matches[i].pattern_name = Locals(d).matches[j].pattern_name
        /\ FLess(Locals(d).base_score, BASE_CAP)

\* The names of the rules of the category "strong".
StrongRules ==
    { PRIZE_PATTERNS[r].name : r \in { r \in 1..Len(PRIZE_PATTERNS) :
                                          PRIZE_PATTERNS[r].category = "strong" } }

\* C5: the base score, before penalties and bonus are added, is at most 0.9.
C5_BaseCap ==
    \A d \in Detectors :
        Called(d) => ~FLess(BASE_CAP, Locals(d).base_score)

\* A call in which all eight strong rules fired.
C5_Witness ==
    \E d \in Detectors :
        /\ Called(d)
        /\ Cardinality(StrongRules) = 8
        /\ StrongRules \subseteq Fired(Locals(d).matches)
        /\ Locals(d).base_score = BASE_CAP

\* The final score of the same call had no negative rule fired: the same base
\* score and the same bonus, and no penalty.
ScoreWithoutNegatives(locals) ==
    final_score(penalized_score(locals.base_score, << >>), locals.nlp_bonus)

\* C6: when official_rules fires, the call either returns nothing or reports
\* a confidence strictly below the one the same matches and bonus give when
\* no negative rule fires, and the latter is always reported.
C6_NegativeDominance ==
    \A d \in Detectors :
        (Called(d) /\ "official_rules" \in FiredNegatives(Locals(d).negatives)) =>
            /\ ~FLess(ScoreWithoutNegatives(Locals(d)), FLOOR)
            /\ Returned(d) =>
                  Ret(d)[1].confidence < FRound3(ScoreWithoutNegatives(Locals(d)))

\* A call in which official_rules fired, with a bonus, that returns a result.
C6_Witness ==
    \E d \in Detectors :
        /\ Returned(d)
        /\ "official_rules" \in FiredNegatives(Locals(d).negatives)
        /\ FLess(FZero, Locals(d).nlp_bonus)

\* Two calls agree: both return nothing, or both return a result with the
\* same confidence, the same matched_text and the same set of pattern_names.
Agree(a, b) ==
    \/ a.ret = << >> /\ b.ret = << >>
    \/ /\ a.ret # << >>
       /\ b.ret # << >>
       /\ a.ret[1].confidence = b.ret[1].confidence
       /\ a.ret[1].matched_text = b.ret[1].matched_text
       /\ { a.ret[1].pattern_names[i] : i \in 1..Len(a.ret[1].pattern_names) }
            = { b.ret[1].pattern_names[i] : i \in 1..Len(b.ret[1].pattern_names) }

\* Two detectors constructed with the same availability of the linguistic
\* processor agree on the document.
SeparateInstancesAgree ==
    \A d1, d2 \in Detectors :
        (Called(d1) /\ Called(d2) /\ nlp[d1] = nlp[d2]) => Agree(last[d1][1], last[d2][1])

\* A detector's next call agrees with its previous one.
SameInstanceAgrees ==
    \A d \in Detectors :
        (Called(d) /\ last'[d] # << >>) => Agree(last[d][1], last'[d][1])

SumOf(xs) ==
    LET upto[i \in 0..Len(xs)] == IF i = 0 THEN 0 ELSE upto[i - 1] + xs[i]
    IN  upto[Len(xs)]

\* The score the composition rule gives in decimal arithmetic, in thousandths:
\* clamp(min(sum of the weights of the rules that fired, 0.9) + sum of the
\* penalties of the negative rules that fired + bonus, 0.0, 1.0).
DecimalScore(locals, bonus) ==
    LET positive  == SumOf(Flatten([r \in 1..Len(PRIZE_PATTERNS) |->
                        IF PRIZE_PATTERNS[r].name \in Fired(locals.matches)
                        THEN << FRound3(PRIZE_PATTERNS[r].weight) >> ELSE << >>]))
        penalties == SumOf(Flatten([r \in 1..Len(NEGATIVE_PATTERNS) |->
                        IF NEGATIVE_PATTERNS[r].name \in FiredNegatives(locals.negatives)
                        THEN << FRound3(NEGATIVE_PATTERNS[r].penalty) >> ELSE << >>]))
    IN  Max(0, Min(1000, Min(positive, 900) + penalties + bonus))

\* C8: the score a call compares against the floor and reports equals
\* clamp(min(sum of per-rule maximum weights, 0.9) + sum of penalties + bonus,
\* 0.0, 1.0): the call returns nothing exactly when that score is below 0.1,
\* and otherwise reports that score.
C8_ScoreComposition ==
    \A d \in Detectors :
        (Called(d) /\ Locals(d).consulted) =>
            LET score == DecimalScore(Locals(d), FRound3(Locals(d).nlp_bonus))
            IN  /\ Ret(d) = << >> <=> score < 100
                /\ Returned(d) => Ret(d)[1].confidence = score

\* A call on "There is a hidden message herein." followed by "Eligibility
\* requirements: open to residents only.": 0.7 - 0.3 - 0.3 is 0.1 and the
\* call returns nothing.
C8_Witness ==
    \E d \in Detectors :
        /\ Called(d)
        /\ text = << "HiddenMsg", "Eligibility" >>
        /\ ~nlp[d]
        /\ DecimalScore(Locals(d), 0) = 100
        /\ Ret(d) = << >>

\* The order of the steps of the composition, in the arithmetic of the
\* program: the cap is applied to the positive sum, the penalties are added
\* one by one to the capped sum with no lower bound, the bonus is added and
\* the result is clamped.
C8_OrderOfSteps ==
    \A d \in Detectors :
        (Called(d) /\ Locals(d).consulted) =>
            LET capped    == BaseOfFired(Fired(Locals(d).matches))
                penalties == Flatten([r \in 1..Len(NEGATIVE_PATTERNS) |->
                                IF NEGATIVE_PATTERNS[r].name
                                       \in FiredNegatives(Locals(d).negatives)
                                THEN << NEGATIVE_PATTERNS[r].penalty >> ELSE << >>])
                summed    == FAdd(FSumFrom(capped, penalties), Locals(d).nlp_bonus)
            IN  Locals(d).final_score
                    = (IF FLess(summed, FZero) THEN FZero
                       ELSE IF FLess(ONE, summed) THEN ONE ELSE summed)

\* C9: the bonus score_context returns is in [0.0, 0.4].
C9_BonusRange ==
    \A d \in Detectors :
        Called(d) =>
            /\ ~FLess(Locals(d).nlp_bonus, FZero)
            /\ ~FLess(BONUS_CAP, Locals(d).nlp_bonus)

\* A call whose contributions sum to more than 0.4 and whose bonus is 0.4.
C9_Witness ==
    \E d \in Detectors :
        /\ Called(d)
        /\ nlp[d]
        /\ FLess(BONUS_CAP, score_context_uncapped(TRUE, text, ner, Locals(d).matches))
        /\ Locals(d).nlp_bonus = BONUS_CAP

\* C10: score_context returns 0.0 when the linguistic processor is
\* unavailable or the match list is empty; a call by a detector without the
\* processor that returns a result reports clamp(capped base score +
\* penalties, 0.0, 1.0).
C10_DegradedBonusIsZero ==
    \A d \in Detectors :
        /\ score_context(nlp[d], text, ner, << >>) = FZero
        /\ ~nlp[d] => score_context(nlp[d], text, ner, find_all_matches(text)) = FZero
        /\ (Called(d) /\ (~nlp[d] \/ Locals(d).matches = << >>)) =>
              /\ Locals(d).nlp_bonus = FZero
              /\ Returned(d) => Ret(d)[1].confidence = DecimalScore(Locals(d), 0)

\* A detector without the processor has returned a result on a document
\* that earns a bonus from a detector with it.
C10_Witness ==
    \E d \in Detectors :
        /\ Returned(d)
        /\ ~nlp[d]
        /\ FLess(FZero, score_context(TRUE, text, ner, Locals(d).matches))

\* The position of a rule in PRIZE_PATTERNS.
RuleIndex(name) == CHOOSE r \in 1..Len(PRIZE_PATTERNS) : PRIZE_PATTERNS[r].name = name

\* The matches are in rule declaration order, and by offset within a rule.
InMatchOrder(matches) ==
    \A i, j \in 1..Len(matches) :
        i < j => \/ RuleIndex(matches[i].pattern_name) < RuleIndex(matches[j].pattern_name)
                 \/ /\ matches[i].pattern_name = matches[j].pattern_name
                    /\ matches[i].start < matches[j].start

\* matches[i] has the largest weight of all the matches.
HasMaxWeight(matches, i) ==
    \A j \in 1..Len(matches) : ~FLess(matches[i].weight, matches[j].weight)

\* C12: the matched_text and the context of a returned DetectionResult are
\* those of a match of maximum weight, and of the first such match in the
\* sequence find_all_matches returned, which is in rule declaration order and
\* by offset within a rule.
C12_BestMatchIsFirstMaximum ==
    \A d \in Detectors :
        Returned(d) =>
            LET matches == Locals(d).matches
            IN  /\ InMatchOrder(matches)
                /\ \E i \in 1..Len(matches) :
                      /\ HasMaxWeight(matches, i)
                      /\ \A j \in 1..(i - 1) : ~HasMaxWeight(matches, j)
                      /\ Ret(d)[1].matched_text = matches[i].matched_text
                      /\ Ret(d)[1].context =
                            context_window(text, matches[i].start, matches[i].end, 300)

\* A result was returned for a document in which several matches share the
\* largest weight and the first of them in match order is not the first of
\* them in the document.
C12_Witness ==
    \E d \in Detectors :
        /\ Returned(d)
        /\ \E i, j \in 1..Len(Locals(d).matches) :
              /\ i < j
              /\ HasMaxWeight(Locals(d).matches, i)
              /\ HasMaxWeight(Locals(d).matches, j)
              /\ Locals(d).matches[j].start < Locals(d).matches[i].start
              /\ Locals(d).matches[j].matched_text # Locals(d).matches[i].matched_text

\* The number of occurrences of a negative rule in the text.
NegCount(name, t) ==
    LET RECURSIVE Count(_)
        Count(i) == IF i = 0 THEN 0 ELSE Count(i - 1) + NegOccurrences(name, t[i])
    IN  Count(Len(t))

\* The position of a rule in NEGATIVE_PATTERNS.
NegativeIndex(name) ==
    CHOOSE r \in 1..Len(NEGATIVE_PATTERNS) : NEGATIVE_PATTERNS[r].name = name

\* C13: the list find_negative_matches returned has, for every negative rule,
\* one pair (identifier, penalty) when the rule occurs in the text at least
\* once, however often, and none when it does not occur; the pairs are in rule
\* declaration order.
C13_NegativesOncePerRule ==
    \A d \in Detectors :
        (Called(d) /\ Locals(d).consulted) =>
            LET negatives == Locals(d).negatives
            IN  /\ \A r \in 1..Len(NEGATIVE_PATTERNS) :
                      Cardinality({ i \in 1..Len(negatives) :
                                      negatives[i][1] = NEGATIVE_PATTERNS[r].name }) =
                          IF NegCount(NEGATIVE_PATTERNS[r].name, text) >= 1 THEN 1 ELSE 0
                /\ \A i \in 1..Len(negatives) :
                      /\ negatives[i][1] \in
                            { NEGATIVE_PATTERNS[r].name : r \in 1..Len(NEGATIVE_PATTERNS) }
                      /\ negatives[i][2] =
                            NEGATIVE_PATTERNS[NegativeIndex(negatives[i][1])].penalty
                /\ \A i, j \in 1..Len(negatives) :
                      i < j => NegativeIndex(negatives[i][1]) < NegativeIndex(negatives[j][1])

\* find_negative_matches was called on a text in which official_rules occurs
\* three times and the other two negative rules occur as well.
C13_Witness ==
    \E d \in Detectors :
        /\ Called(d) /\ Locals(d).consulted
        /\ NegCount("official_rules", text) = 3
        /\ Len(Locals(d).negatives) = 3

\* The number of occurrences of all the positive rules in the text.
OccurrenceCount(t) ==
    LET RECURSIVE InPhrases(_, _)
        InPhrases(name, i) ==
            IF i = 0 THEN 0 ELSE InPhrases(name, i - 1) + Len(finditer(name, t[i]))
        RECURSIVE InRules(_)
        InRules(r) ==
            IF r = 0 THEN 0 ELSE InRules(r - 1) + InPhrases(PRIZE_PATTERNS[r].name, Len(t))
    IN  InRules(Len(PRIZE_PATTERNS))

\* The spans of two matches overlap.
Overlap(a, b) == a.start < b.end /\ b.start < a.end

\* C14: the list find_all_matches returned has exactly one PatternMatch for
\* every occurrence of every positive rule (its name, span, matched text and
\* weight) and nothing else, so a rule with n occurrences has n matches and no
\* occurrence is dropped for overlapping an occurrence of another rule.
C14_EveryOccurrenceMatched ==
    \A d \in Detectors :
        Called(d) =>
            LET matches == Locals(d).matches
            IN  /\ Len(matches) = OccurrenceCount(text)
                /\ \A r \in 1..Len(PRIZE_PATTERNS) : \A i \in 1..Len(text) :
                      LET occ == finditer(PRIZE_PATTERNS[r].name, text[i])
                      IN  \A j \in 1..Len(occ) :
                            Cardinality({ k \in 1..Len(matches) :
                                /\ matches[k].pattern_name = PRIZE_PATTERNS[r].name
                                /\ matches[k].start = PhraseStart(text, i) + occ[j].start
                                /\ matches[k].end = PhraseStart(text, i) + occ[j].end
                                /\ matches[k].matched_text = occ[j].group
                                /\ matches[k].category = PRIZE_PATTERNS[r].category
                                /\ matches[k].weight = PRIZE_PATTERNS[r].weight }) = 1

\* find_all_matches was called on a text in which one rule occurs at three
\* or more offsets and occurrences of two different rules overlap.
C14_Witness ==
    \E d \in Detectors :
        /\ Called(d)
        /\ \E i, j \in 1..Len(Locals(d).matches) :
              /\ Locals(d).matches[i].pattern_name # Locals(d).matches[j].pattern_name
              /\ Overlap(Locals(d).matches[i], Locals(d).matches[j])
        /\ \E name \in Fired(Locals(d).matches) :
              Cardinality({ k \in 1..Len(Locals(d).matches) :
                              Locals(d).matches[k].pattern_name = name }) >= 3

\* No negative rule occurs in the text.
NoNegativeOccurs(t) ==
    \A r \in 1..Len(NEGATIVE_PATTERNS) : NegCount(NEGATIVE_PATTERNS[r].name, t) = 0

\* Every negative rule occurs in the text.
AllNegativesOccur(t) ==
    \A r \in 1..Len(NEGATIVE_PATTERNS) : NegCount(NEGATIVE_PATTERNS[r].name, t) >= 1

\* C17: when a strong rule fired and no negative rule occurs in the text,
\* analyze returns a DetectionResult whose confidence is at least 0.7 (and so
\* at least 0.3), on a detector with the linguistic processor or without.
C17_StrongSignalReported ==
    \A d \in Detectors :
        (/\ Called(d)
         /\ Fired(Locals(d).matches) \cap StrongRules # { }
         /\ NoNegativeOccurs(text)) =>
            /\ Ret(d) # << >>
            /\ Ret(d)[1].confidence >= 700
            /\ Ret(d)[1].confidence >= 300

\* A detector without the linguistic processor returned confidence 0.7 for a
\* text in which one strong rule of weight 0.7 fired alone, and a detector
\* with the processor returned a result for a text with a strong rule too.
C17_Witness ==
    /\ \E d \in Detectors :
          /\ Returned(d) /\ ~nlp[d]
          /\ Fired(Locals(d).matches) = { "hidden_reward" }
          /\ NoNegativeOccurs(text)
          /\ Ret(d)[1].confidence = 700
    /\ \E d \in Detectors :
          /\ Returned(d) /\ nlp[d]
          /\ Fired(Locals(d).matches) \cap StrongRules # { }

\* C18: when all three negative rules occur in the text, analyze returns
\* nothing or a confidence below 0.5, whatever positive rules fired and
\* whatever the bonus.
C18_AllNegativesSuppress ==
    \A d \in Detectors :
        (Called(d) /\ AllNegativesOccur(text)) =>
            \/ Ret(d) = << >>
            \/ Ret(d)[1].confidence < 500

\* A result was returned for a text in which all three negative rules occur:
\* the base score is at the cap 0.9 and the bonus at its cap 0.4.
C18_Witness ==
    \E d \in Detectors :
        /\ Returned(d)
        /\ AllNegativesOccur(text)
        /\ Len(Locals(d).negatives) = 3
        /\ Locals(d).base_score = BASE_CAP
        /\ Locals(d).nlp_bonus = BONUS_CAP

\* No constructor raised.
ConstructionDoesNotRaise == \A d \in Detectors : built[d] # "raised"

\* A call on a detector without the processor got no bonus.
DisabledMeansNoBonus ==
    \A d \in Detectors :
        (built[d] = "built" /\ ~nlp[d] /\ Called(d)) => Locals(d).nlp_bonus = FZero

\* A step leaves a constructed detector constructed, with the availability
\* of the processor it was constructed with.
AvailabilityIsPermanent ==
    \A d \in Detectors :
        built[d] = "built" => (built'[d] = "built" /\ nlp'[d] = nlp[d])

Contains(s, sub) ==
    \E i \in 0..(Len(s) - Len(sub)) : SubSeq(s, i + 1, i + Len(sub)) = sub

\* The call of _extract_context has returned.
ExcerptReturned == args # << >> /\ excerpt # << >>

\* C15: the excerpt _extract_context returns contains the matched substring
\* text[start:end] in full.
C15_ExcerptContainsMatch ==
    ExcerptReturned =>
        Contains(excerpt[1], Slice(args[1].text, args[1].start, args[1].end))

\* The call on "aa. a" with the span [1, 5) and the window 0 returned "a":
\* the left trim cut the excerpt inside the match "a. a".
C15_Witness ==
    /\ ExcerptReturned
    /\ args[1] = [text |-> << "a", "a", ".", " ", "a" >>, start |-> 1, end |-> 5, window |-> 0]
    /\ excerpt[1] = << "a" >>

\* C16: the excerpt is at most (end - start) + 2 * window characters long and
\* is a contiguous substring of text[max(0, start - window) :
\* min(len(text), end + window)].
C16_ExcerptWithinWindow ==
    ExcerptReturned =>
        /\ Len(excerpt[1]) <= (args[1].end - args[1].start) + 2 * args[1].window
        /\ Contains(Slice(args[1].text,
                          Max(0, args[1].start - args[1].window),
                          Min(Len(args[1].text), args[1].end + args[1].window)),
                    excerpt[1])

\* A call with a window cut on both sides of the text returned an excerpt of
\* exactly (end - start) + 2 * window characters.
C16_Witness ==
    /\ ExcerptReturned
    /\ args[1].window >= 1
    /\ args[1].start - args[1].window > 0
    /\ args[1].end + args[1].window < Len(args[1].text)
    /\ args[1].start < args[1].end
    /\ Len(excerpt[1]) = (args[1].end - args[1].start) + 2 * args[1].window

\* What docs[id].detection holds after analyze returned the detection.
Seen(detection) == IF detection = << >> THEN << >> ELSE << detection[1].confidence >>

\* C19: every result in the store belongs to a document that was analysed
\* and for which analyze returned a detection, carries the confidence of that
\* detection, and that confidence is at least the threshold in force when the
\* result was inserted; what the store records as returned by analyze is
\* what Detector.analyze returns for the text, whatever the threshold.
C19_StoredResultsMeetThreshold ==
    /\ \A r \in results :
          /\ r.threshold \in Thresholds
          /\ r.confidence >= r.threshold
          /\ docs[r.document_id].status = "analyzed"
          /\ docs[r.document_id].detection = << r.confidence >>
    /\ \A id \in DocIds :
          (docs[id].status = "analyzed" /\ docs[id].text # << >>) =>
              docs[id].detection \in
                  { Seen(detection) :
                      detection \in analyze_returns(nlp[PipelineDetector], docs[id].text) }

\* The store holds a result, and a document for which analyze returned a
\* detection that was not stored, its confidence being under the threshold.
C19_Witness ==
    /\ results # { }
    /\ \E id \in DocIds :
          /\ docs[id].status = "analyzed"
          /\ docs[id].detection # << >>
          /\ docs[id].detection[1] < threshold
          /\ \A r \in results : r.document_id # id

\* run() is under way.
Running == pc \notin { "idle", "done" }

\* With the stop flag set, a step starts neither a document nor a phase.
NothingStartsAfterStop ==
    stop.pipeline =>
        /\ ~(pc # "fetch_item" /\ pc' = "fetch_item")
        /\ ~(pc # "analyze_item" /\ pc' = "analyze_item")
        /\ ~(pc # "fetching" /\ pc' = "fetching" /\ work'.i = 0)
        /\ ~(pc # "analysis" /\ pc' = "analysis" /\ work'.i = 0)

\* The step that ends the work on a document leaves the document fetched,
\* analysed or in error, and counted, whether the stop flag is set or not.
CurrentItemIsCompleted ==
    /\ (pc = "fetch_item" /\ pc' # pc) =>
          /\ docs'[work.items[work.i + 1]].status \in { "fetched", "error" }
          /\ work'.i = work.i + 1
    /\ (pc = "analyze_item" /\ pc' # pc) =>
          /\ docs'[work.items[work.i + 1]].status = "analyzed"
          /\ work'.i = work.i + 1

StatusMoves ==
    { << "pending", "fetched" >>, << "pending", "error" >>, << "fetched", "analyzed" >> }

\* A step changes the status of a stored document by one of these moves only.
OnlyAllowedMoves ==
    \A id \in DocIds :
        (docs[id].status \notin { "absent", docs'[id].status }) =>
            << docs[id].status, docs'[id].status >> \in StatusMoves

\* The document the analysis is about to visit is in status fetched.
AnalysisPicksFetched ==
    pc = "analyze_item" => docs[work.items[work.i + 1]].status = "fetched"

\* The visit of the analysis leaves the document analysed.
AnalysisLeavesAnalyzed ==
    (pc = "analyze_item" /\ pc' = "analysis") =>
        docs'[work.items[work.i + 1]].status = "analyzed"

\* A step that changes the results adds one result, for the document it
\* moves from fetched to analysed, which had none.
ResultOnlyAtAnalysis ==
    results' # results =>
        \E id \in DocIds :
            /\ docs[id].status = "fetched" /\ docs'[id].status = "analyzed"
            /\ \A r \in results : r.document_id # id
            /\ \E r \in results' : r.document_id = id /\ results' = results \cup { r }

\* No document has two results.
AtMostOneResult ==
    \A r1, r2 \in results : r1.document_id = r2.document_id => r1 = r2

\* C29: the status of a document only moves pending -> fetched, pending ->
\* error or fetched -> analyzed; the analysis visits documents in status
\* fetched only and leaves each analysed, with or without a result; so a
\* document is analysed at most once and has at most one result, over any
\* sequence of runs, stops and new pipelines on the same store.
C29_StatusProgression ==
    /\ [](AnalysisPicksFetched /\ AtMostOneResult)
    /\ [][OnlyAllowedMoves /\ AnalysisLeavesAnalyzed /\ ResultOnlyAtAnalysis]_vars

\* A second pipeline on the store has run its analysis to the end of its
\* list, the store holding a document analysed with a result and one
\* analysed without.
C29_Witness ==
    /\ pc = "done"
    /\ threshold = 300
    /\ \E r \in results : r.threshold = 100
    /\ \E id \in DocIds :
          /\ docs[id].status = "analyzed"
          /\ \A r \in results : r.document_id # id
    /\ \A id \in DocIds : docs[id].status \in { "analyzed", "error" }

\* run() returned at one of its tests of the stop flag, or its analysis loop
\* did.
Stopped ==
    /\ stop.pipeline
    /\ progress # << >>
    /\ \/ progress[1].current_action = "Search stopped by user."
       \/ progress[1].phase = "complete" /\ work.i < Len(work.items)

\* C30: when run() has returned, whether it completed, was stopped or
\* failed, the last update it delivered has is_running = False, and a run
\* that was stopped did not report "Search complete".
C30_LastUpdateNotRunning ==
    pc = "done" =>
        /\ progress # << >>
        /\ ~progress[1].is_running
        /\ Stopped => progress[1].current_action # "Search complete!"

\* run() has returned after its analysis loop was left at the stop flag
\* with a document still to analyse.
C30_Witness ==
    /\ pc = "done"
    /\ stop.pipeline
    /\ progress # << >> /\ progress[1].current_action = "Search complete!"
    /\ work.i >= 1 /\ work.i < Len(work.items)
    /\ \E id \in DocIds : docs[id].status = "analyzed"

\* C21: the table documents holds at most one row per url; url_exists(u) is
\* true exactly for the urls passed to insert_document since the last
\* reset; and insert_document with a url that is stored leaves the rows,
\* their statuses included, as they are.
C21_UrlDeduplication ==
    /\ \A r1, r2 \in db.documents : r1.url = r2.url => r1 = r2
    /\ \A url \in Urls : url_exists(db, url) <=> url \in log.inserted
    /\ \A url \in Urls, status \in Statuses :
          url_exists(db, url) => insert_document(db, url, status).documents = db.documents

\* insert_document was called with a url that was stored, and the store
\* holds both urls, one with a status that is not the default.
C21_Witness ==
    /\ log.duplicate
    /\ \A url \in Urls : url_exists(db, url)
    /\ \E row \in db.documents : row.status = "analyzed"

\* A step that calls provider.search for a pair finds the pair not recorded
\* and leaves it recorded.
SearchOnlyWhenNew ==
    \A pr \in Pairs :
        log'.searched[pr] > log.searched[pr] =>
            /\ ~query_was_executed(db, pr[1], pr[2])
            /\ query_was_executed(db', pr[1], pr[2])

\* C22: query_was_executed(q, e) is true exactly for the pairs passed to
\* record_query since the last reset; run_discovery calls search for a pair
\* only when the pair is not recorded, and records it; so each pair is
\* searched at most once between two resets.
C22_QueryTracking ==
    /\ [](\A pr \in Pairs :
            /\ query_was_executed(db, pr[1], pr[2]) <=> pr \in log.recorded
            /\ log.searched[pr] <= 1)
    /\ [][SearchOnlyWhenNew]_vars

\* A discovery has searched one pair and passed over the other, which was
\* recorded before, and a later discovery is passing over both.
C22_Witness ==
    /\ disc.pc = "crawl"
    /\ log.recorded = Pairs
    /\ \E pr \in Pairs : log.searched[pr] = 0
    /\ \E pr \in Pairs : log.searched[pr] = 1
    /\ log.inserted # { }

\* The store d is empty for its readers.
Empty(d) ==
    /\ \A url \in Urls : ~url_exists(d, url)
    /\ \A pr \in Pairs : ~query_was_executed(d, pr[1], pr[2])
    /\ get_stats(d).total = 0
    /\ get_stats(d).results = 0

\* C23: the store is empty after reset, whatever it held: after a step that
\* was a reset the store is empty, and reset applied to the store of any
\* reachable state gives an empty store.
C23_ResetEmpties ==
    /\ log.reset # "no" => Empty(db)
    /\ Empty(reset(db))

\* The last call was a reset that found rows in each of the four tables.
C23_Witness == log.reset = "rows"

\* C24: when the window was cut on the left (ctx_start > 0) and the stripped
\* excerpt has its first ". " at an index from 0 to 99, _extract_context
\* returns what follows that ". "; in every other case it returns the
\* stripped excerpt unchanged, and it never trims on the right.
C24_LeftTrimAtFirstPeriod ==
    ExcerptReturned =>
        LET c            == args[1]
            ctx_start    == Max(0, c.start - c.window)
            ctx_end      == Min(Len(c.text), c.end + c.window)
            stripped     == strip(Slice(c.text, ctx_start, ctx_end))
            first_period == find(stripped, << ".", " " >>)
        IN  excerpt[1] = IF ctx_start > 0 /\ 0 <= first_period /\ first_period <= 99
                         THEN Slice(stripped, first_period + 2, Len(stripped))
                         ELSE stripped

\* The call on "a. a" with the span [1, 4) and the window 0 returned ". a":
\* the window was cut on the left, the stripped excerpt starts with ". ",
\* and nothing was removed.
C24_Witness ==
    /\ ExcerptReturned
    /\ args[1] = [text |-> << "a", ".", " ", "a" >>, start |-> 1, end |-> 4, window |-> 0]
    /\ excerpt[1] = << ".", " ", "a" >>

\* The result of detector d shows matches[i]: its matched_text and the
\* excerpt around its span.
Shows(d, i) ==
    /\ Ret(d)[1].matched_text = Locals(d).matches[i].matched_text
    /\ Ret(d)[1].context =
          context_window(text, Locals(d).matches[i].start, Locals(d).matches[i].end, 300)

\* C28 as stated: when several matches share the maximum weight, the best
\* match of Detector.analyze is the max-weight match with the smallest start
\* offset, regardless of which rule produced it.
C28_BestMatchHasSmallestStart ==
    \A d \in Detectors :
        Returned(d) =>
            \E i \in 1..Len(Locals(d).matches) :
                /\ HasMaxWeight(Locals(d).matches, i)
                /\ \A j \in 1..Len(Locals(d).matches) :
                      HasMaxWeight(Locals(d).matches, j) =>
                          Locals(d).matches[i].start <= Locals(d).matches[j].start
                /\ Shows(d, i)

\* C28, amended: when several matches share the maximum weight, the best
\* match of Detector.analyze is the one of the rule declared first in
\* PRIZE_PATTERNS among them and, within that rule, the one with the smallest
\* start offset; a max-weight match of a later rule that starts earlier in
\* the document is passed over.
C28_BestMatchOfEarliestRule ==
    \A d \in Detectors :
        Returned(d) =>
            \E i \in 1..Len(Locals(d).matches) :
                /\ HasMaxWeight(Locals(d).matches, i)
                /\ \A j \in 1..Len(Locals(d).matches) :
                      (HasMaxWeight(Locals(d).matches, j) /\ j # i) =>
                          \/ RuleIndex(Locals(d).matches[i].pattern_name)
                                < RuleIndex(Locals(d).matches[j].pattern_name)
                          \/ /\ Locals(d).matches[i].pattern_name = Locals(d).matches[j].pattern_name
                             /\ Locals(d).matches[i].start < Locals(d).matches[j].start
                /\ Shows(d, i)

\* A result was returned for the text "Congratulations, you found ..."
\* followed by "If you've read this far ...": the match of read_this_far,
\* declared first, is shown although the match of congratulations_found has
\* the same weight 0.8 and starts at offset 0.
C28_Witness ==
    \E d \in Detectors :
        /\ Returned(d)
        /\ text = << "ClaimAll", "ReadFar" >>
        /\ Ret(d)[1].matched_text = "If you've read this far"
        /\ \E j \in 1..Len(Locals(d).matches) :
              /\ Locals(d).matches[j].pattern_name = "congratulations_found"
              /\ Locals(d).matches[j].start = 0
              /\ HasMaxWeight(Locals(d).matches, j)

\* The positions of the tokens whose lowercased text is a legal term.
LegalOccurrences(tokens) == { i \in 1..Len(tokens) : lower(tokens[i]) \in LEGAL_INDICATORS }

\* Step 1 of score_context has just run: score was 0.0 before it.
AfterLegalStep == given # << >> /\ run.pc = "sentences"

\* After step 1 the score is 0.1 if at least three tokens are legal terms,
\* repeats counted, and 0.0 otherwise.
LegalBonusOnceFromThree ==
    AfterLegalStep =>
        run.score = IF Cardinality(LegalOccurrences(given[1].tokens)) >= 3
                    THEN FSumFrom(FZero, << LEGAL_BONUS >>) ELSE FZero

\* C27 as stated: the legal vocabulary has 18 terms, and the bonus 0.1 is
\* added exactly once when the token occurrences of those terms number at
\* least 3, and not when they number 0, 1 or 2.
C27_EighteenLegalTerms ==
    /\ Cardinality(LEGAL_INDICATORS) = 18
    /\ LegalBonusOnceFromThree

\* C27, amended: the legal vocabulary has 16 terms, and the bonus 0.1 is
\* added exactly once when the token occurrences of those terms, repeats of
\* one term counted and letter case ignored, number at least 3, and not when
\* they number 0, 1 or 2.
C27_SixteenLegalTerms ==
    /\ Cardinality(LEGAL_INDICATORS) = 16
    /\ LegalBonusOnceFromThree

\* Step 1 ran on the tokens "hereby", "Hereby", "hereby", three occurrences
\* of one term, and the score is 0.1.
C27_Witness ==
    /\ AfterLegalStep
    /\ given[1].tokens = << "hereby", "Hereby", "hereby" >>
    /\ run.score = LEGAL_BONUS

\* The sentences whose span [start_char, end_char) contains the start of the
\* match.
Enclosing(doc, match) ==
    { i \in 1..Len(doc.sents) :
        /\ doc.sents[i].start_char <= match.start
        /\ match.start < doc.sents[i].end_char }

\* What the match adds when it is attributed to the first sentence whose
\* span contains its start.
EnclosingSentenceBonus(doc, match) ==
    IF Enclosing(doc, match) = { } THEN << >>
    ELSE LET sent == doc.sents[CHOOSE i \in Enclosing(doc, match) :
                                  \A j \in Enclosing(doc, match) : i <= j]
         IN  (IF sent.action THEN << ACTION_BONUS >> ELSE << >>)
             \o (IF sent.if_you THEN << IF_YOU_BONUS >> ELSE << >>)

\* C25: step 2 of score_context adds, for each match, 0.1 if the first
\* sentence whose span contains the match start has an action word and 0.1
\* if it has "if you", and nothing for a match whose start lies in no
\* sentence.
C25_BonusOfEnclosingSentence ==
    [][(given # << >> /\ run.pc = "sentences" /\ run'.pc = "entities") =>
           run'.score = FSumFrom(run.score,
                            Flatten([i \in 1..Len(given[1].matches) |->
                                EnclosingSentenceBonus(given[1], given[1].matches[i])]))]_vars

\* Step 2 ran on a sentence over [0, 5) with an action word and "if you",
\* followed by a sentence over [5, 9) with neither, and one match that
\* starts at offset 5: the score is 0.2, the bonuses of the sentence that
\* ends where the match starts.
C25_Witness ==
    /\ given # << >> /\ run.pc = "entities"
    /\ given[1].tokens = << >>
    /\ given[1].sents = << Sent(0, 5, TRUE, TRUE), Sent(5, 9, FALSE, FALSE) >>
    /\ given[1].matches = << [start |-> 5] >>
    /\ run.score = FSumFrom(FZero, << ACTION_BONUS, IF_YOU_BONUS >>)

\* The MONEY entities with a match that starts less than 300 characters from
\* the start of the entity.
MoneyNearAMatch(doc, matches) ==
    { i \in 1..Len(doc.ents) :
        /\ doc.ents[i].label_ = "MONEY"
        /\ \E j \in 1..Len(matches) :
              /\ doc.ents[i].start_char - matches[j].start < 300
              /\ matches[j].start - doc.ents[i].start_char < 300 }

\* C26: step 3 of score_context adds 0.15 once for every MONEY entity that
\* has at least one match starting less than 300 characters from the
\* entity's start, however many such matches there are, and nothing for any
\* other entity.
C26_MoneyBonusOncePerEntity ==
    [][(given # << >> /\ run.pc = "entities" /\ run'.pc = "capping") =>
           run'.score = FSumFrom(run.score,
                            [k \in 1..Cardinality(MoneyNearAMatch(given[1], given[1].matches)) |->
                                MONEY_BONUS])]_vars

\* Step 3 ran on MONEY entities at offsets 2 and 305 and two matches, at
\* offsets 0 and 5: both matches are near the first entity, the nearer one is
\* exactly 300 characters from the second, and the score is 0.15.
C26_Witness ==
    /\ given # << >> /\ run.pc = "capping"
    /\ given[1].tokens = << >>
    /\ given[1].sents = << >>
    /\ given[1].ents = << [label_ |-> "MONEY", start_char |-> 2],
                          [label_ |-> "MONEY", start_char |-> 305] >>
    /\ given[1].matches = << [start |-> 0], [start |-> 5] >>
    /\ run.score = MONEY_BONUS

====
